---- MODULE Spec2Model ----
(***************************************************************************)
(* A model of the cluster-coordination core of the repository:             *)
(*   - the CRUSH placement function        (src/crush/mapper.c)            *)
(*   - the OSD map and its incrementals    (src/kernel/osdmap.c, osdmap.h) *)
(*   - the monitor map handler             (src/unnamed/part_007)          *)
(*   - the capability engine of one inode  (the caps part of               *)
(*                                          src/kernel/osdmap.h, super.h)  *)
(* Arrays of the C code are sequences here; a C index i is position i+1.   *)
(***************************************************************************)
EXTENDS Integers, Sequences, FiniteSets, TLC

VARIABLES
    cin,        \* inputs of crush_do_rule: map, rule, x, result_max, force, hash salt
    weight,     \* the per-device weight vector handed to crush_do_rule
    runs,       \* the calls of crush_do_rule made so far: weight vector and result
    nset,       \* number of weight changes made so far
    osdmap,     \* the OSD map the client holds (struct ceph_osdmap)
    last,       \* the last call of apply_incremental: its input, the map before, its result
    nsteps,     \* number of map messages handled so far
    monc,       \* the monitor client: the monitor map it holds, and whoami
    ol,         \* the last object layout computed by calc_object_layout
    ci,         \* the inode's capability state (struct ceph_inode_info)
    session,    \* per MDS: s_cap_gen and s_cap_ttl of struct ceph_mds_session
    jiffies,    \* the clock, in seconds
    mdsc,       \* the MDS client: the delayed-release list, the snap realm references
    capl,       \* the last capability operation: its input, the inode before, what it sent
    rados,      \* the librados client: one pool context, its completions, the OSD ops sent
    monreq,     \* the monitor client's requests: wanted maps, retry timers, statfs requests
    retry,      \* one replica position of crush_choose: its failure counters and last verdict
    notify,     \* one call of RadosClient::notify: the caller, its flags, the callbacks
    delayed,    \* the delayed-release list entry of one inode, per step of its three users
    mapping     \* a file range being mapped by repeated calls of calc_file_object_mapping

crushVars == <<cin, weight, runs, nset>>

mapVars == <<osdmap, last, nsteps, monc, ol>>

capVars == <<ci, session, jiffies, mdsc, capl>>

cliVars == <<rados, monreq, retry, notify, delayed, mapping>>

vars == <<cin, weight, runs, nset, osdmap, last, nsteps, monc, ol,
          ci, session, jiffies, mdsc, capl, rados, monreq, retry,
          notify, delayed, mapping>>

----------------------------------------------------------------------------
(* Bounds of the model *)

MaxSalt == 1        \* hash functions 0..MaxSalt of the family
MaxX == 2           \* crush inputs x in 0..MaxX
MaxRuns == 2        \* calls of crush_do_rule per behaviour
MaxSet == 1         \* weight changes per behaviour
MaxHeap == 1        \* uninitialised memory holds a value in 0..MaxHeap
MaxEpoch == 3       \* map epochs in 1..MaxEpoch
MaxSteps == 2       \* map messages handled per behaviour
MaxPgNum == 5       \* pg_num, pgp_num, lpg_num, lpgp_num in 1..MaxPgNum
MaxMds == 1         \* metadata servers 0..MaxMds
MaxTime == 10       \* the clock runs from 0 to MaxTime seconds
MaxCapOps == 4      \* operations and clock steps per behaviour of CapSpec
MaxGen == 1         \* s_cap_gen and i_rdcache_gen stay in 0..MaxGen
MaxSnaps == 2       \* cap_snaps taken per behaviour
MaxDirty == 2       \* dirty pages of the inode at a time
MaxMseq == 1        \* migration sequence numbers 0..MaxMseq
MaxRef == 1         \* each reference count of the inode stays in 0..MaxRef
MaxRevokeOps == 5   \* operations of a run of the revocation machine
MaxSnapOps == 10    \* operations of a run of the snapshot flush machine

----------------------------------------------------------------------------
(* Program constants *)

CRUSH_MAX_SET == 10
CRUSH_BUCKET_UNIFORM == 1
CRUSH_BUCKET_LIST == 2
CRUSH_BUCKET_TREE == 3
CRUSH_BUCKET_STRAW == 4

CRUSH_RULE_TAKE == 1
CRUSH_RULE_CHOOSE_FIRSTN == 2
CRUSH_RULE_CHOOSE_INDEP == 3
CRUSH_RULE_EMIT == 4
CRUSH_RULE_CHOOSE_LEAF_FIRSTN == 6
CRUSH_RULE_CHOOSE_LEAF_INDEP == 7

----------------------------------------------------------------------------
(* Helpers for C arrays and bit operations *)

At(arr, i) == arr[i + 1]

Put(arr, i, v) == [arr EXCEPT ![i + 1] = v]

RECURSIVE Shl1(_)
Shl1(n) == IF n = 0 THEN 1 ELSE 2 * Shl1(n - 1)

(* the elements of a C array prefix arr[0..n-1] *)
Prefix(arr, n) == [i \in 1..n |-> arr[i]]

----------------------------------------------------------------------------
(* The CRUSH hash (crush/hash.h).  The family is indexed by a salt; a hash *)
(* value is 32 bits wide and is kept as its two 16-bit halves.             *)

HashP == 32749

Mix(h, v) == LET t == (h + v + 64) % HashP IN (t * t + 12345) % HashP

crush_hash32(salt, a, b, c, d, n) ==
    LET h1 == Mix(Mix(salt, 7), a)
        h2 == Mix(h1, b)
        h3 == Mix(h2, c)
        h4 == Mix(h3, d)
        h5 == Mix(h4, n)
    IN  [hi |-> (h4 * 2 + (h3 % 2)) % 65536, lo |-> (h5 * 2 + (h2 % 2)) % 65536]

crush_hash32_2(salt, a, b) == crush_hash32(salt, a, b, 0, 0, 2)

crush_hash32_3(salt, a, b, c) == crush_hash32(salt, a, b, c, 0, 3)

crush_hash32_4(salt, a, b, c, d) == crush_hash32(salt, a, b, c, d, 4)

(* h % m for a 32-bit h held as halves *)
HashMod(h, m) == ((h.hi % m) * (65536 % m) + h.lo) % m

(* ((u64)h * w) >> 32 for a 32-bit h held as halves, w < 2^15 *)
HashScale(h, w) == ((h.hi * w) + ((h.lo * w) \div 65536)) \div 65536

----------------------------------------------------------------------------
(* Bucket choose methods (src/crush/mapper.c).  A bucket is a record with  *)
(* the fields of struct crush_bucket and of its algorithm's subtype.       *)

bucket_uniform_choose(salt, bucket, x, r, shift) ==
    LET o  == crush_hash32_2(salt, x, bucket.id).lo
        oo == crush_hash32_3(salt, r \div 4, bucket.id, x)
        p  == At(bucket.primes, HashMod(oo, bucket.size))
        s  == (x + o + (r + 1) * p) % bucket.size
        s2 == IF shift # 0 THEN (s + shift) % bucket.size ELSE s
    IN  At(bucket.items, s2)

(* the loop of bucket_list_choose from index i downwards; bug is BUG_ON(1) *)
RECURSIVE list_choose_from(_, _, _, _, _, _)
list_choose_from(salt, bucket, x, r, shift, i) ==
    IF i < 0 THEN [bug |-> TRUE, item |-> 0]
    ELSE LET w  == crush_hash32_4(salt, x, At(bucket.items, i), r, bucket.id).lo
             ws == (w * At(bucket.sum_weights, i)) \div 65536
         IN  IF ws < At(bucket.item_weights, i)
             THEN [bug |-> FALSE,
                   item |-> At(bucket.items,
                               IF shift # 0 THEN (i + shift) % bucket.size ELSE i)]
             ELSE list_choose_from(salt, bucket, x, r, shift, i - 1)

bucket_list_choose(salt, bucket, x, r, shift) ==
    list_choose_from(salt, bucket, x, r, shift, bucket.size - 1)

RECURSIVE height(_)
height(n) == IF n % 2 = 1 THEN 0 ELSE 1 + height(n \div 2)

left(x) == x - Shl1(height(x) - 1)

right(x) == x + Shl1(height(x) - 1)

terminal(x) == x % 2

(* the descent of bucket_tree_choose from node n to a terminal node *)
RECURSIVE tree_descend(_, _, _, _, _)
tree_descend(salt, bucket, x, r, n) ==
    IF terminal(n) = 1 THEN n
    ELSE LET w == At(bucket.node_weights, n)
             t == HashScale(crush_hash32_4(salt, x, n, r, bucket.id), w)
             l == left(n)
         IN  IF t < At(bucket.node_weights, l)
             THEN tree_descend(salt, bucket, x, r, l)
             ELSE tree_descend(salt, bucket, x, r, right(n))

(* the shift walk of bucket_tree_choose: step to the next node of nonzero weight *)
RECURSIVE tree_shift(_, _, _)
tree_shift(bucket, n, shift) ==
    IF shift <= 0 THEN n
    ELSE LET n2 == (n + 2) % bucket.size
         IN  tree_shift(bucket, n2,
                        IF At(bucket.node_weights, n2) # 0 THEN shift - 1 ELSE shift)

bucket_tree_choose(salt, bucket, x, r, shift) ==
    At(bucket.items,
       tree_shift(bucket, tree_descend(salt, bucket, x, r, bucket.size \div 2), shift))

(* the loop of bucket_straw_choose from item i on: the index of the longest straw *)
RECURSIVE straw_high(_, _, _, _, _, _, _)
straw_high(salt, bucket, x, r, i, high, high_draw) ==
    IF i >= bucket.size THEN high
    ELSE LET draw == crush_hash32_3(salt, x, At(bucket.items, i), r).lo
                        * At(bucket.straws, i)
         IN  IF i = 0 \/ draw > high_draw
             THEN straw_high(salt, bucket, x, r, i + 1, i, draw)
             ELSE straw_high(salt, bucket, x, r, i + 1, high, high_draw)

bucket_straw_choose(salt, bucket, x, r, shift) ==
    LET high == straw_high(salt, bucket, x, r, 0, 0, 0)
    IN  At(bucket.items, IF shift # 0 THEN (high + shift) % bucket.size ELSE high)

(* the result is [bug, item]; bug stands for a BUG_ON that fired *)
crush_bucket_choose(salt, in, x, r, shift) ==
    CASE in.alg = CRUSH_BUCKET_UNIFORM ->
            [bug |-> FALSE, item |-> bucket_uniform_choose(salt, in, x, r, shift)]
      [] in.alg = CRUSH_BUCKET_LIST -> bucket_list_choose(salt, in, x, r, shift)
      [] in.alg = CRUSH_BUCKET_TREE ->
            [bug |-> FALSE, item |-> bucket_tree_choose(salt, in, x, r, shift)]
      [] in.alg = CRUSH_BUCKET_STRAW ->
            [bug |-> FALSE, item |-> bucket_straw_choose(salt, in, x, r, shift)]
      [] OTHER -> [bug |-> TRUE, item |-> At(in.items, 0)]

(* true if the device is marked out for input x *)
is_out(salt, w, item, x) ==
    IF At(w, item) >= 4096 THEN FALSE
    ELSE IF At(w, item) = 0 THEN TRUE
    ELSE IF crush_hash32_2(salt, x, item).lo < At(w, item) THEN FALSE
    ELSE TRUE

----------------------------------------------------------------------------
(* crush_choose (src/crush/mapper.c).                                      *)
(* ctx = [salt, map, weight, x] are the arguments every call shares;       *)
(* p = [bucket, numrep, type, off, firstn, recurse_to_leaf, off2] are the  *)
(* arguments of one call, where out = array + off and out2 = array + off2. *)

BucketOf(map, item) == map.buckets[-item]

(* the replica number r' handed to the bucket's choose method *)
choose_r(p, in, rep, ftotal, flocal, shift) ==
    IF in.alg = CRUSH_BUCKET_UNIFORM
    THEN IF p.firstn \/ p.numrep >= in.size
         THEN rep + (ftotal - shift)
         ELSE IF in.size % p.numrep = 0
              THEN rep + (p.numrep + 1) * (flocal + ftotal - shift)
              ELSE rep + p.numrep * (flocal + ftotal - shift)
    ELSE IF p.firstn
         THEN rep + (ftotal - shift)
         ELSE rep + p.numrep * (flocal + ftotal - shift)

retry_kind_any(collide, ftotal, flocal) ==
    IF flocal < 3 THEN "bucket"
    ELSE IF ftotal < 10 THEN "descent"
    ELSE "skip"

(* what follows a rejected candidate: "bucket", "descent" or "skip" *)
retry_kind(collide, ftotal, flocal) ==
    IF collide /\ flocal < 3 THEN "bucket"
    ELSE IF ftotal < 10 THEN "descent"
    ELSE "skip"

(* the shift counter after a rejection that brought the total to ftotal *)
next_shift(ftotal, shift) == IF ftotal > 4 THEN shift + 1 ELSE shift

RECURSIVE crush_choose_try(_, _, _, _, _, _, _, _, _, _)
RECURSIVE crush_choose_from(_, _, _, _, _, _)

(* the inner do-while body from "desired type?" on, for the candidate ch   *)
(* that crush_bucket_choose returned; the result is [bug, skip, item, out2] *)
crush_choose_item(ctx, p, rep, outpos, out, out2, in, ftotal, flocal, shift, ch) ==
    LET item == ch.item
        crash == [bug |-> TRUE, skip |-> TRUE, item |-> 0, out2 |-> out2]
    IN
    IF ch.bug \/ item >= ctx.map.max_devices THEN crash
    ELSE
    LET itemtype == IF item < 0 THEN BucketOf(ctx.map, item).type ELSE 0 IN
    IF itemtype # p.type
    THEN IF item >= 0 \/ (-1 - item) >= ctx.map.max_buckets THEN crash
         ELSE \* "in = map->buckets[-1-item]; continue;": in a do-while the
              \* continue evaluates the loop conditions, retry_bucket and
              \* retry_descent are both 0, both loops end and item is emitted
              [bug |-> FALSE, skip |-> FALSE, item |-> item, out2 |-> out2]
    ELSE
    LET collide == \E i \in 0..(outpos - 1) : At(out, p.off + i) = item
        recurse == p.recurse_to_leaf /\ item < 0
        sub == crush_choose_from(ctx,
                   [bucket |-> BucketOf(ctx.map, item), numrep |-> outpos + 1,
                    type |-> 0, off |-> p.off2, firstn |-> p.firstn,
                    recurse_to_leaf |-> FALSE, off2 |-> 0],
                   outpos, outpos, out2, <<>>)
        newout2 == IF recurse THEN sub.out ELSE out2
        reject == IF recurse /\ sub.n <= outpos THEN TRUE
                  ELSE IF itemtype = 0 THEN is_out(ctx.salt, ctx.weight, item, ctx.x)
                  ELSE FALSE
        ftotal2 == ftotal + 1
        flocal2 == flocal + 1
        shift2 == next_shift(ftotal2, shift)
        kind == retry_kind(collide, ftotal2, flocal2)
    IN
    IF recurse /\ sub.bug THEN crash
    ELSE IF reject \/ collide
    THEN CASE kind = "bucket" ->
                crush_choose_try(ctx, p, rep, outpos, out, newout2,
                                 in, ftotal2, flocal2, shift2)
           [] kind = "descent" ->
                crush_choose_try(ctx, p, rep, outpos, out, newout2,
                                 p.bucket, ftotal2, 0, shift2)
           [] OTHER -> [bug |-> FALSE, skip |-> TRUE, item |-> item, out2 |-> newout2]
    ELSE [bug |-> FALSE, skip |-> FALSE, item |-> item, out2 |-> newout2]

(* one pass of the inner do-while body and everything that follows it for *)
(* this replica; the result is [bug, skip, item, out2]                    *)
crush_choose_try(ctx, p, rep, outpos, out, out2, in, ftotal, flocal, shift) ==
    crush_choose_item(ctx, p, rep, outpos, out, out2, in, ftotal, flocal, shift,
        crush_bucket_choose(ctx.salt, in, ctx.x,
                            choose_r(p, in, rep, ftotal, flocal, shift), shift))

(* the loop "for (rep = ...; rep < numrep; rep++)"; the result is [bug, n, out, out2] *)
crush_choose_from(ctx, p, rep, outpos, out, out2) ==
    IF rep >= p.numrep
    THEN [bug |-> FALSE, n |-> outpos, out |-> out, out2 |-> out2]
    ELSE LET t == crush_choose_try(ctx, p, rep, outpos, out, out2, p.bucket, 0, 0, 0)
         IN  IF t.bug THEN [bug |-> TRUE, n |-> outpos, out |-> out, out2 |-> t.out2]
             ELSE IF t.skip
             THEN crush_choose_from(ctx, p, rep + 1, outpos, out, t.out2)
             ELSE crush_choose_from(ctx, p, rep + 1, outpos + 1,
                                    Put(out, p.off + outpos, t.item), t.out2)

crush_choose(ctx, p, outpos, out, out2) ==
    crush_choose_from(ctx, p, outpos, outpos, out, out2)

----------------------------------------------------------------------------
(* crush_do_rule (src/crush/mapper.c).                                     *)
(* st = [w, o, c, wsize, result, fc, force_pos, bug]: the working arrays   *)
(* w and o (a and b, swapped after each choose step), the leaf array c,    *)
(* the result so far and the force context.                                *)

(* the while(1) loop that records force and its ancestors in force_context *)
RECURSIVE force_walk(_, _, _, _)
force_walk(map, fc, force_pos, force) ==
    LET pos == force_pos + 1
        fc2 == Put(fc, pos, force)
        up  == IF force >= 0 THEN At(map.device_parents, force)
               ELSE map.bucket_parents[-force]
    IN  IF up = 0 THEN [fc |-> fc2, force_pos |-> pos]
        ELSE force_walk(map, fc2, pos, up)

(* "while (force_pos && force_context[force_pos] < 0 && arg2 != type) force_pos--" *)
RECURSIVE skip_intermediate(_, _, _, _)
skip_intermediate(map, fc, force_pos, arg2) ==
    IF force_pos # 0 /\ At(fc, force_pos) < 0
       /\ arg2 # BucketOf(map, At(fc, force_pos)).type
    THEN skip_intermediate(map, fc, force_pos - 1, arg2)
    ELSE force_pos

IsLeafOp(op) == op \in {CRUSH_RULE_CHOOSE_LEAF_FIRSTN, CRUSH_RULE_CHOOSE_LEAF_INDEP}

IsFirstnOp(op) == op \in {CRUSH_RULE_CHOOSE_LEAF_FIRSTN, CRUSH_RULE_CHOOSE_FIRSTN}

RECURSIVE choose_step_from(_, _, _, _, _, _)

(* the end of one pass of the loop below: got is what crush_choose returned *)
choose_step_next(ctx, step, result_max, st, i, osize, force_pos1, got) ==
    choose_step_from(ctx, step, result_max,
        [st EXCEPT !.o = got.out, !.c = got.out2, !.force_pos = force_pos1,
                   !.bug = got.bug],
        i + 1, osize + got.n)

(* the loop "for (i = 0; i < wsize; i++)" of a choose step, from index i on; *)
(* the result is st with o, c, force_pos updated and osize added             *)
choose_step_from(ctx, step, result_max, st, i, osize) ==
    IF i >= st.wsize \/ st.bug THEN [st EXCEPT !.wsize = osize]
    ELSE
    LET numrep == IF step.arg1 <= 0 THEN step.arg1 + result_max ELSE step.arg1
        recurse_to_leaf == IsLeafOp(step.op)
        forced == osize = 0 /\ st.force_pos >= 0
        fpos == skip_intermediate(ctx.map, st.fc, st.force_pos, step.arg2)
        o1 == IF forced THEN Put(st.o, osize, At(st.fc, fpos)) ELSE st.o
        c1 == IF forced /\ recurse_to_leaf THEN Put(st.c, osize, At(st.fc, 0)) ELSE st.c
        j  == IF forced THEN 1 ELSE 0
        force_pos1 == IF forced THEN fpos - 1 ELSE st.force_pos
        wi == At(st.w, i)
    IN
    IF numrep <= 0 THEN choose_step_from(ctx, step, result_max, st, i + 1, osize)
    ELSE IF wi >= 0 \/ -wi > ctx.map.max_buckets
    THEN [st EXCEPT !.bug = TRUE]      \* map->buckets[-1-w[i]] is no bucket
    ELSE
    choose_step_next(ctx, step, result_max, st, i, osize, force_pos1,
        crush_choose(ctx,
            [bucket |-> BucketOf(ctx.map, wi), numrep |-> numrep,
             type |-> step.arg2, off |-> osize, firstn |-> IsFirstnOp(step.op),
             recurse_to_leaf |-> recurse_to_leaf, off2 |-> osize],
            j, o1, c1))

(* the loop of CRUSH_RULE_EMIT: append w[0..wsize-1] while the result has room *)
RECURSIVE emit_from(_, _, _, _, _)
emit_from(w, wsize, result, result_max, i) ==
    IF i < wsize /\ Len(result) < result_max
    THEN emit_from(w, wsize, Append(result, At(w, i)), result_max, i + 1)
    ELSE result

(* the end of a choose step: s1 is the state after the loop over w, with   *)
(* osize in wsize; the leaf values are copied to o, and w and o are swapped *)
choose_step_end(step, s1) ==
    LET osize == s1.wsize
        o2 == IF IsLeafOp(step.op)
              THEN [k \in 1..Len(s1.o) |-> IF k <= osize THEN s1.c[k] ELSE s1.o[k]]
              ELSE s1.o
    IN  IF s1.bug THEN s1
        ELSE [s1 EXCEPT !.w = o2, !.o = s1.w, !.wsize = osize]

(* one step of the rule *)
do_rule_step(ctx, step, result_max, st) ==
    CASE step.op = CRUSH_RULE_TAKE ->
            IF st.force_pos >= 0 /\ At(st.fc, st.force_pos) # step.arg1
            THEN [st EXCEPT !.bug = TRUE]
            ELSE [st EXCEPT !.w = Put(st.w, 0, step.arg1), !.wsize = 1,
                            !.force_pos = IF st.force_pos >= 0 THEN st.force_pos - 1
                                          ELSE st.force_pos]
      [] step.op \in {CRUSH_RULE_CHOOSE_LEAF_FIRSTN, CRUSH_RULE_CHOOSE_FIRSTN,
                      CRUSH_RULE_CHOOSE_LEAF_INDEP, CRUSH_RULE_CHOOSE_INDEP} ->
            IF st.wsize = 0 THEN [st EXCEPT !.bug = TRUE]
            ELSE choose_step_end(step, choose_step_from(ctx, step, result_max, st, 0, 0))
      [] step.op = CRUSH_RULE_EMIT ->
            [st EXCEPT !.result = emit_from(st.w, st.wsize, st.result, result_max, 0),
                       !.wsize = 0]
      [] OTHER -> [st EXCEPT !.bug = TRUE]

RECURSIVE do_rule_steps(_, _, _, _, _)
do_rule_steps(ctx, rule, result_max, st, step) ==
    IF step > Len(rule) \/ st.bug THEN st
    ELSE do_rule_steps(ctx, rule, result_max,
                       do_rule_step(ctx, rule[step], result_max, st), step + 1)

(* what crush_do_rule returns when the steps end in state fin *)
do_rule_result(fin) ==
    IF fin.bug THEN [bug |-> TRUE, rc |-> -1, result |-> <<>>]
    ELSE [bug |-> FALSE, rc |-> Len(fin.result), result |-> fin.result]

(* crush_do_rule: heap is the content of the freshly allocated arrays a, b, *)
(* c and force_context, which the code does not initialise.  The result is *)
(* [bug, rc, result]; bug stands for a BUG_ON that fired.                  *)
crush_do_rule(salt, map, rule, x, result_max, force, w, heap) ==
    LET ctx == [salt |-> salt, map |-> map, weight |-> w, x |-> x]
        fresh == [i \in 1..CRUSH_MAX_SET |-> heap]
        st0 == [w |-> fresh, o |-> fresh, c |-> fresh, wsize |-> 0, result |-> <<>>,
                fc |-> fresh, force_pos |-> -1, bug |-> FALSE]
        dne == force >= 0 /\ (force >= map.max_devices
                              \/ At(map.device_parents, force) = 0)
        fw == IF force >= 0 /\ ~dne /\ ~is_out(salt, w, force, x)
              THEN force_walk(map, st0.fc, -1, force)
              ELSE [fc |-> st0.fc, force_pos |-> -1]
    IN  IF dne THEN [bug |-> FALSE, rc |-> -1, result |-> <<>>]
        ELSE do_rule_result(
                do_rule_steps(ctx, rule, result_max,
                              [st0 EXCEPT !.fc = fw.fc, !.force_pos = fw.force_pos], 1))

----------------------------------------------------------------------------
(* The CRUSH maps and rules the model runs crush_do_rule on *)

NoArr == <<>>

Bucket(id, type, alg, items) ==
    [id |-> id, type |-> type, alg |-> alg, size |-> Len(items), items |-> items,
     primes |-> NoArr, item_weights |-> NoArr, sum_weights |-> NoArr,
     node_weights |-> NoArr, straws |-> NoArr]

UniformBucket(id, type, items, primes) ==
    [Bucket(id, type, CRUSH_BUCKET_UNIFORM, items) EXCEPT !.primes = primes]

ListBucket(id, type, items, item_weights, sum_weights) ==
    [Bucket(id, type, CRUSH_BUCKET_LIST, items) EXCEPT
        !.item_weights = item_weights, !.sum_weights = sum_weights]

(* items and node_weights are indexed by tree node; the items sit at odd nodes *)
TreeBucket(id, type, items, node_weights) ==
    [Bucket(id, type, CRUSH_BUCKET_TREE, items) EXCEPT !.node_weights = node_weights]

StrawBucket(id, type, items, straws) ==
    [Bucket(id, type, CRUSH_BUCKET_STRAW, items) EXCEPT !.straws = straws]

(* one bucket of type 1 holding the devices directly *)
FlatRoot(alg) ==
    CASE alg = CRUSH_BUCKET_UNIFORM ->
            UniformBucket(-1, 1, <<0, 1, 2, 3, 4>>, <<7, 11, 13, 17, 19>>)
      [] alg = CRUSH_BUCKET_LIST ->
            ListBucket(-1, 1, <<0, 1, 2, 3, 4>>, <<256, 256, 256, 256, 256>>,
                       <<256, 512, 768, 1024, 1280>>)
      [] alg = CRUSH_BUCKET_TREE ->
            TreeBucket(-1, 1, <<0, 0, 0, 1, 0, 2, 0, 3>>,
                       <<0, 256, 512, 256, 1024, 256, 512, 256>>)
      [] OTHER ->
            StrawBucket(-1, 1, <<0, 1, 2, 3, 4>>, <<16384, 16384, 16384, 16384, 16384>>)

FlatMap(alg) ==
    [max_devices |-> 5, max_buckets |-> 1,
     buckets |-> <<FlatRoot(alg)>>,
     device_parents |-> IF alg = CRUSH_BUCKET_TREE THEN <<-1, -1, -1, -1, 0>>
                        ELSE <<-1, -1, -1, -1, -1>>,
     bucket_parents |-> <<0>>]

(* root (type 3) -> racks (type 2) -> hosts (type 1) -> devices *)
HierMap ==
    [max_devices |-> 5, max_buckets |-> 6,
     buckets |-> <<StrawBucket(-1, 3, <<-2, -3>>, <<16384, 16384>>),
                   ListBucket(-2, 2, <<-4, -5>>, <<512, 256>>, <<512, 768>>),
                   UniformBucket(-3, 2, <<-6>>, <<1>>),
                   TreeBucket(-4, 1, <<0, 0, 0, 1>>, <<0, 256, 512, 256>>),
                   StrawBucket(-5, 1, <<2>>, <<16384>>),
                   UniformBucket(-6, 1, <<3, 4>>, <<3, 5>>)>>,
     device_parents |-> <<-4, -4, -5, -6, -6>>,
     bucket_parents |-> <<0, -1, -1, -2, -2, -3>>]

Step(op, arg1, arg2) == [op |-> op, arg1 |-> arg1, arg2 |-> arg2]

(* take root; <choose op> n of type; emit *)
SimpleRule(op, n, type) ==
    <<Step(CRUSH_RULE_TAKE, -1, 0), Step(op, n, type), Step(CRUSH_RULE_EMIT, 0, 0)>>

(* take root; choose 2 racks; 1 host in each; 1 device in each; emit *)
StepwiseRule ==
    <<Step(CRUSH_RULE_TAKE, -1, 0), Step(CRUSH_RULE_CHOOSE_FIRSTN, 2, 2),
      Step(CRUSH_RULE_CHOOSE_FIRSTN, 1, 1), Step(CRUSH_RULE_CHOOSE_FIRSTN, 1, 0),
      Step(CRUSH_RULE_EMIT, 0, 0)>>

FlatRules ==
    {SimpleRule(CRUSH_RULE_CHOOSE_FIRSTN, 3, 0),
     SimpleRule(CRUSH_RULE_CHOOSE_INDEP, 0, 0),
     SimpleRule(CRUSH_RULE_CHOOSE_LEAF_FIRSTN, 2, 0)}

HierRules ==
    {SimpleRule(CRUSH_RULE_CHOOSE_FIRSTN, 2, 0),
     SimpleRule(CRUSH_RULE_CHOOSE_LEAF_FIRSTN, 2, 1),
     SimpleRule(CRUSH_RULE_CHOOSE_LEAF_FIRSTN, 2, 2),
     StepwiseRule}

Algs == {CRUSH_BUCKET_UNIFORM, CRUSH_BUCKET_LIST, CRUSH_BUCKET_TREE, CRUSH_BUCKET_STRAW}

Scenarios ==
    {[map |-> FlatMap(alg), rule |-> rule] : alg \in Algs, rule \in FlatRules}
    \cup {[map |-> HierMap, rule |-> rule] : rule \in HierRules}

ResultMax == 3

WeightVals == {0, 2048, 65536}

AllIn == <<65536, 65536, 65536, 65536, 65536>>

(* every device in, or one device out *)
InitWeights == {AllIn} \cup {[AllIn EXCEPT ![d] = 0] : d \in 1..5}

----------------------------------------------------------------------------
(* The OSD map (src/kernel/osdmap.h, src/kernel/osdmap.c).                 *)
(* A map is a record with the fields of struct ceph_osdmap; osd_state[i]   *)
(* is the set of CEPH_OSD_* flags of osd i-1, an address is a number       *)
(* (0 = the zeroed address), crush is the decoded CRUSH map or NoCrush.    *)
(* A message is a record of its decoded fields; its field cut names the    *)
(* place where the bytes end early ("none" for a complete message).        *)

NoCrush == [max_buckets |-> 0, max_devices |-> 0, device_offload |-> <<>>]

EmptyMap ==
    [epoch |-> 0, flags |-> 0, pg_num |-> 0, pgp_num |-> 0, lpg_num |-> 0,
     lpgp_num |-> 0, pg_num_mask |-> 0, pgp_num_mask |-> 0, lpg_num_mask |-> 0,
     lpgp_num_mask |-> 0, max_osd |-> 0, osd_state |-> <<>>, osd_addr |-> <<>>,
     crush |-> NoCrush, num_pg_swap_primary |-> 0, pg_swap_primary |-> <<>>]

RECURSIVE calc_bits_of(_)
calc_bits_of(t) == IF t = 0 THEN 0 ELSE 1 + calc_bits_of(t \div 2)

(* calc_pg_masks taking the bits of each count instead of the count less one *)
calc_pg_masks_of_count(map) ==
    [map EXCEPT !.pg_num_mask   = Shl1(calc_bits_of(map.pg_num)) - 1,
                !.pgp_num_mask  = Shl1(calc_bits_of(map.pgp_num)) - 1,
                !.lpg_num_mask  = Shl1(calc_bits_of(map.lpg_num)) - 1,
                !.lpgp_num_mask = Shl1(calc_bits_of(map.lpgp_num)) - 1]

calc_pg_masks(map) ==
    [map EXCEPT !.pg_num_mask   = Shl1(calc_bits_of(map.pg_num - 1)) - 1,
                !.pgp_num_mask  = Shl1(calc_bits_of(map.pgp_num - 1)) - 1,
                !.lpg_num_mask  = Shl1(calc_bits_of(map.lpg_num - 1)) - 1,
                !.lpgp_num_mask = Shl1(calc_bits_of(map.lpgp_num - 1)) - 1]

(* the result is [err, bug, map]: err is -ENOMEM, bug a memcpy that writes *)
(* past the end of the new arrays (max < map->max_osd)                     *)
osdmap_set_max_osd(map, max, nomem) ==
    IF nomem THEN [err |-> TRUE, bug |-> FALSE, map |-> map]
    ELSE [err |-> FALSE,
          bug |-> map.max_osd > max,
          map |-> [map EXCEPT
                     !.osd_state = [i \in 1..max |->
                                      IF i <= map.max_osd THEN map.osd_state[i] ELSE {}],
                     !.osd_addr = [i \in 1..max |->
                                      IF i <= map.max_osd THEN map.osd_addr[i] ELSE 0],
                     !.max_osd = max]]

(* crush_decode of an encoded CRUSH map cm: [err, crush] *)
crush_decode(cm, nomem) ==
    IF nomem \/ cm.bad THEN [err |-> TRUE, crush |-> NoCrush]
    ELSE [err |-> FALSE,
          crush |-> [max_buckets |-> cm.max_buckets, max_devices |-> cm.max_devices,
                     device_offload |-> cm.device_offload]]

(* osdmap_decode of an encoded full map fm: [err, map] *)
osdmap_decode(fm, nomem) ==
    LET m0 == calc_pg_masks([EmptyMap EXCEPT
                  !.epoch = fm.epoch, !.pg_num = fm.pg_num, !.pgp_num = fm.pgp_num,
                  !.lpg_num = fm.lpg_num, !.lpgp_num = fm.lpgp_num,
                  !.flags = fm.flags])
        sm == osdmap_set_max_osd(m0, fm.max_osd, nomem)
        m1 == [sm.map EXCEPT !.osd_state = fm.osd_state, !.osd_addr = fm.osd_addr,
                             !.num_pg_swap_primary = Len(fm.pg_swap_primary),
                             !.pg_swap_primary = fm.pg_swap_primary]
        cd == crush_decode(fm.crush, nomem)
    IN  IF nomem \/ fm.cut # "none" \/ sm.err \/ cd.err
        THEN [err |-> TRUE, map |-> EmptyMap]
        ELSE [err |-> FALSE, map |-> [m1 EXCEPT !.crush = cd.crush]]

(* the new_up loop from entry i on: [st, map], st = "bug" when BUG_ON fires *)
RECURSIVE apply_new_up(_, _, _)
apply_new_up(map, ups, i) ==
    IF i > Len(ups) THEN [st |-> "ok", map |-> map]
    ELSE IF ups[i].osd >= map.max_osd THEN [st |-> "bug", map |-> map]
    ELSE apply_new_up(
            [map EXCEPT !.osd_state = Put(@, ups[i].osd, At(@, ups[i].osd) \cup {"up"}),
                        !.osd_addr = Put(@, ups[i].osd, ups[i].addr)],
            ups, i + 1)

(* the new_down loop from entry i on: [map, marked], marked the addresses  *)
(* handed to ceph_messenger_mark_down                                      *)
RECURSIVE apply_new_down(_, _, _, _)
apply_new_down(map, downs, i, marked) ==
    IF i > Len(downs) THEN [map |-> map, marked |-> marked]
    ELSE IF downs[i] < map.max_osd
    THEN apply_new_down(
            [map EXCEPT !.osd_state = Put(@, downs[i], At(@, downs[i]) \ {"up"})],
            downs, i + 1, Append(marked, At(map.osd_addr, downs[i])))
    ELSE apply_new_down(map, downs, i + 1, marked)

(* the new_offload loop from entry i on: [st, map]; st = "bug" for a write *)
(* outside map->crush->device_offload                                      *)
RECURSIVE apply_new_offload(_, _, _)
apply_new_offload(map, offs, i) ==
    IF i > Len(offs) THEN [st |-> "ok", map |-> map]
    ELSE IF offs[i].osd < map.max_osd
    THEN IF offs[i].osd >= map.crush.max_devices THEN [st |-> "bug", map |-> map]
         ELSE apply_new_offload(
                 [map EXCEPT !.crush.device_offload = Put(@, offs[i].osd, offs[i].off)],
                 offs, i + 1)
    ELSE apply_new_offload(map, offs, i + 1)

(* apply_incremental(p, end, map, msgr): the result is                     *)
(*   [ret, map, newmap, marked]                                            *)
(* ret = "map" (newmap is returned), "err" (an ERR_PTR is returned) or     *)
(* "bug" (a BUG_ON fired or memory was overrun); map is the map passed in  *)
(* as the call leaves it.                                                  *)
apply_incremental(inc, map, nomem) ==
    LET Out(ret, m, nm, marked) ==
            [ret |-> ret, map |-> m, newmap |-> nm, marked |-> marked]
        full == osdmap_decode(inc.full, nomem)
        nc == crush_decode(inc.newcrush, nomem)
        m1 == IF inc.new_flags >= 0 THEN [map EXCEPT !.flags = inc.new_flags] ELSE map
        sm == IF inc.max >= 0 THEN osdmap_set_max_osd(m1, inc.max, nomem)
              ELSE [err |-> FALSE, bug |-> FALSE, map |-> m1]
        m2 == [sm.map EXCEPT !.epoch = @ + 1,
                             !.crush = IF inc.has_crush THEN nc.crush ELSE @]
        up == apply_new_up(m2, inc.new_up, 1)
        dn == apply_new_down(up.map, inc.new_down, 1, <<>>)
        of == apply_new_offload(dn.map, inc.new_offload, 1)
    IN
    IF inc.cut = "header" THEN Out("err", map, map, <<>>)
    ELSE IF inc.epoch # map.epoch + 1 THEN Out("bug", map, map, <<>>)
    ELSE IF inc.has_full
    THEN IF full.err THEN Out("err", map, map, <<>>)
         ELSE Out("map", map, full.map, <<>>)
    ELSE IF inc.cut = "crush" \/ (inc.has_crush /\ nc.err) THEN Out("err", map, map, <<>>)
    ELSE IF inc.cut = "max" \/ sm.err THEN Out("err", m1, m1, <<>>)
    ELSE IF sm.bug THEN Out("bug", m2, m2, <<>>)
    ELSE IF inc.cut = "new_up" THEN Out("err", m2, m2, <<>>)
    ELSE IF up.st = "bug" THEN Out("bug", up.map, up.map, <<>>)
    ELSE IF inc.cut = "new_down" THEN Out("err", up.map, up.map, <<>>)
    ELSE IF inc.cut = "new_offload" THEN Out("err", dn.map, dn.map, dn.marked)
    ELSE IF of.st = "bug" THEN Out("bug", of.map, of.map, dn.marked)
    ELSE IF inc.cut \in {"pg_swap", "gunk"} THEN Out("err", of.map, of.map, dn.marked)
    ELSE Out("map", of.map, of.map, dn.marked)

----------------------------------------------------------------------------
(* The monitor map handler (src/unnamed/part_007, src/unnamed/part_005)    *)

(* ceph_monmap_decode of a message msg: [err, monmap] *)
ceph_monmap_decode(msg, nomem) ==
    IF nomem \/ msg.cut # "none" THEN [err |-> TRUE, monmap |-> [epoch |-> 0, num_mon |-> 0]]
    ELSE [err |-> FALSE, monmap |-> [epoch |-> msg.epoch, num_mon |-> msg.num_mon]]

(* handle_monmap(client, msg): the monitor client after the call *)
handle_monmap(client, msg, nomem) ==
    LET first == client.monmap.epoch = 0
        new == ceph_monmap_decode(msg, nomem)
    IN  IF new.err THEN client
        ELSE [client EXCEPT !.monmap = new.monmap,
                            !.whoami = IF first THEN msg.dst ELSE @]

----------------------------------------------------------------------------
(* Object placement (src/kernel/osdmap.c) *)

(* calc_object_layout: the pgid of object (ino, bno); ino is held as its   *)
(* two 32-bit halves, pg.ps is a 16-bit field                              *)
calc_object_layout(salt, oid, fl, map) ==
    LET num_mask == IF fl.fl_pg_preferred >= 0 THEN map.lpg_num_mask
                    ELSE map.pg_num_mask
    IN  [ps |-> (oid.bno + crush_hash32_2(salt, oid.ino_lo, oid.ino_hi).lo) % 65536,
         preferred |-> fl.fl_pg_preferred,
         type |-> fl.fl_pg_type,
         size |-> fl.fl_pg_size,
         ol_stripe_unit |-> fl.fl_object_stripe_unit]

----------------------------------------------------------------------------
(* Messages *)

CrushMsg(nb, n) ==
    [bad |-> FALSE, max_buckets |-> nb, max_devices |-> n, device_offload |-> [i \in 1..n |-> 0]]

NoCrushMsg == [bad |-> FALSE, max_buckets |-> 0, max_devices |-> 0, device_offload |-> <<>>]

FullMsg(e, pg, pgp, lpg, lpgp, cut) ==
    [epoch |-> e, pg_num |-> pg, pgp_num |-> pgp, lpg_num |-> lpg, lpgp_num |-> lpgp,
     flags |-> 0, max_osd |-> 2, osd_state |-> <<{"exists", "up"}, {"exists"}>>,
     osd_addr |-> <<1, 0>>, pg_swap_primary |-> <<>>, crush |-> CrushMsg(e, 2),
     cut |-> cut]

NoFull == FullMsg(0, 1, 1, 1, 1, "none")

(* an incremental with epoch e and nothing in it *)
EmptyInc(e) ==
    [epoch |-> e, cut |-> "none", new_flags |-> -1, has_full |-> FALSE, full |-> NoFull,
     has_crush |-> FALSE, newcrush |-> NoCrushMsg, max |-> -1, new_up |-> <<>>,
     new_down |-> <<>>, new_offload |-> <<>>, new_pg_swap_primary |-> <<>>]

(* an incremental with epoch e that changes everything it can *)
BusyInc(e) ==
    [EmptyInc(e) EXCEPT !.new_flags = 1, !.has_crush = TRUE, !.newcrush = CrushMsg(e, 3),
                        !.max = 3, !.new_up = <<[osd |-> 2, addr |-> 2]>>,
                        !.new_down = <<0>>,
                        !.new_offload = <<[osd |-> 2, off |-> 65536]>>,
                        !.new_pg_swap_primary = <<[pg |-> 1, osd |-> 1]>>]

Cuts == {"header", "crush", "max", "new_up", "new_down", "new_offload", "pg_swap", "gunk"}

(* well-formed incrementals with epoch e that carry changes *)
DeltaIncs(e) ==
    {[EmptyInc(e) EXCEPT !.has_crush = (c > 0),
                         !.newcrush = IF c > 0 THEN CrushMsg(e, c) ELSE NoCrushMsg,
                         !.max = m, !.new_up = u, !.new_down = d, !.new_offload = o,
                         !.new_pg_swap_primary = s] :
        c \in {0, 3}, m \in {-1, 1, 3},
        u \in {<<>>, <<[osd |-> 0, addr |-> 2]>>, <<[osd |-> 2, addr |-> 2]>>},
        d \in {<<>>, <<0>>},
        o \in {<<>>, <<[osd |-> 0, off |-> 65536]>>, <<[osd |-> 2, off |-> 65536]>>},
        s \in {<<>>, <<[pg |-> 1, osd |-> 1]>>}}

(* incrementals with epoch e that carry a full map *)
FullIncs(e) ==
    {[EmptyInc(e) EXCEPT !.has_full = TRUE, !.full = FullMsg(fe, 4, 4, 2, 2, cut)] :
        fe \in 1..MaxEpoch, cut \in {"none", "short"}}

(* incrementals with epoch e whose bytes end early or run on *)
CutIncs(e) ==
    {[i EXCEPT !.cut = cut] : i \in {EmptyInc(e), BusyInc(e)}, cut \in Cuts}
    \cup {[BusyInc(e) EXCEPT !.newcrush.bad = TRUE]}

(* incrementals whose epoch is not the one after cur *)
StaleIncs(cur) ==
    {EmptyInc(e) : e \in (0..(MaxEpoch + 1)) \ {cur + 1}}

IncMsgs(cur) ==
    DeltaIncs(cur + 1) \cup {BusyInc(cur + 1)} \cup FullIncs(cur + 1)
    \cup CutIncs(cur + 1) \cup StaleIncs(cur)

MonmapMsgs ==
    [epoch : 0..MaxEpoch, num_mon : 1..2, dst : 7..8, cut : {"none", "short"}]

----------------------------------------------------------------------------
(* The values of the variables a component leaves alone *)

IdleLast ==
    [op |-> "none", inc |-> EmptyInc(0), nomem |-> FALSE, before |-> EmptyMap,
     ret |-> "none", marked |-> <<>>]

IdleOl ==
    [valid |-> FALSE, ino_lo |-> 0, ino_hi |-> 0, bno |-> 0,
     pgid |-> [ps |-> 0, preferred |-> 0, type |-> 0, size |-> 0, ol_stripe_unit |-> 0]]

IdleMonc == [monmap |-> [epoch |-> 0, num_mon |-> 0], whoami |-> -1]

----------------------------------------------------------------------------
(* The capability state of an inode as ceph_alloc_inode leaves it.  A cap  *)
(* mask is the set of its bits; the rb-tree i_caps, keyed by mds, is a     *)
(* function over the MDS ids whose entries say whether the cap is present. *)

Mds == 0..MaxMds

NoCap ==
    [present |-> FALSE, issued |-> {}, implemented |-> {}, seq |-> 0, mseq |-> 0,
     gen |-> 0]

ceph_alloc_inode ==
    [i_caps |-> [m \in Mds |-> NoCap],
     i_nr_by_mode |-> <<0, 0, 0, 0>>,
     i_size |-> 0, i_max_size |-> 0, i_reported_size |-> 0,
     i_wanted_max_size |-> 0, i_requested_max_size |-> 0,
     i_cap_exporting_mds |-> 0, i_cap_exporting_mseq |-> 0,
     i_cap_exporting_issued |-> {},
     i_snap_caps |-> {},
     i_rd_ref |-> 0, i_rdcache_ref |-> 0, i_wr_ref |-> 0,
     i_wrbuffer_ref |-> 0, i_wrbuffer_ref_head |-> 0,
     i_rdcache_gen |-> 0, i_rdcache_pending |-> FALSE,
     i_hold_caps_until |-> 0,
     i_cap_snaps |-> <<>>,
     i_snap_realm |-> 0]

(* a session as it is registered: no generation bump yet, caps not renewed *)
NewSession == [s_cap_gen |-> 0, s_cap_ttl |-> 0]

IdleMdsc == [cap_delay_list |-> FALSE, stopping |-> FALSE, realm_nref |-> 0, seq |-> 1]

IdleCapl ==
    [n |-> 0, max |-> 0, op |-> "none", mds |-> -1, caps |-> {}, arg |-> 0, reply |-> FALSE,
     sent |-> <<>>, bug |-> FALSE, spin |-> FALSE, pre |-> NoCap, used |-> {}]

CapIdle ==
    /\ ci = ceph_alloc_inode
    /\ session = [m \in Mds |-> NewSession]
    /\ jiffies = 0
    /\ mdsc = IdleMdsc
    /\ capl = IdleCapl

(* The librados client as RadosClient::create_pool_ctx leaves a pool       *)
(* context (src/librados.cc): snap_seq CEPH_NOSNAP and an empty snap       *)
(* context; no completion and no OSD op yet.                               *)
CEPH_NOSNAP == -2

EmptySnapc == [seq |-> 0, snaps |-> <<>>]

PoolCtx == [snap_seq |-> CEPH_NOSNAP, snapc |-> EmptySnapc, assert_ver |-> 0]

NoRadosOp == [op |-> "none", rc |-> 0, ops |-> <<>>, pool |-> PoolCtx, c |-> 0]

IdleRados == [pool |-> PoolCtx, aio |-> <<>>, last |-> NoRadosOp, n |-> 0]

(* The monitor client's request state as ceph_monc_init leaves it         *)
(* (src/unnamed/part_005): memset 0, so last_mon and the delays are 0 and  *)
(* no delayed work is pending.  A delayed work is 0 when idle, else the    *)
(* delay it was scheduled with.  osd_requested and umounting tell that an  *)
(* osdmap request, an unmount request, has been made and not yet answered; *)
(* waiting maps a caller of ceph_monc_do_statfs to the tid it waits for.   *)
NoMoncPre ==
    [want_mdsmap |-> 0, have_osdmap |-> 0, mds_delay |-> 0, osd_delay |-> 0,
     mds_work |-> 0, osd_work |-> 0, tree |-> {}]

IdleMonreq ==
    [num_mon |-> 2, last_mon |-> 0,
     want_mdsmap |-> 0, have_osdmap |-> 0,
     mds_delay |-> 0, osd_delay |-> 0, umount_delay |-> 0,
     mds_work |-> 0, osd_work |-> 0, umount_work |-> 0,
     osd_requested |-> FALSE, umounting |-> FALSE,
     last_tid |-> 0, tree |-> {}, waiting |-> <<0, 0>>, now |-> 0, bug |-> FALSE,
     op |-> "none", arg |-> 0, rc |-> 0, out |-> <<>>, pre |-> NoMoncPre, n |-> 0]

(* One run of the loop over the replica positions in crush_choose, for a   *)
(* tree bucket of devices: pc is "choose" before a call of                 *)
(* crush_bucket_choose, "walk" inside the shift walk of bucket_tree_choose *)
(* at node walk_n with walk_shift steps to go, and "done" after the last   *)
(* position; verdict is what the last candidate met.                       *)
NoVerdict ==
    [rejected |-> FALSE, collide |-> FALSE, ftotal0 |-> 0, flocal0 |-> 0,
     ftotal |-> 0, flocal |-> 0, kind |-> "none"]

RetryStart(bucket, w, x, numrep) ==
    [bucket |-> bucket, weight |-> w, x |-> x, numrep |-> numrep,
     rep |-> 0, out |-> <<>>, ftotal |-> 0, flocal |-> 0, shift |-> 0,
     pc |-> "choose", walk_n |-> 0, walk_shift |-> 0, verdict |-> NoVerdict]

IdleRetry == [RetryStart(FlatRoot(CRUSH_BUCKET_TREE), AllIn, 0, 0) EXCEPT !.pc = "done"]

(* no call of RadosClient::notify made yet: pc is the caller's position,   *)
(* done and done_all the two flags on its stack, acked tells that          *)
(* C_SafeCond::finish has run, complete how far C_NotifyComplete::notify   *)
(* has got, registered that the watcher is in the map, last what held when *)
(* the last call returned                                                  *)
NoNotifyReturn == [returned |-> FALSE, acked |-> FALSE, complete |-> FALSE, rc |-> 0]

IdleNotify ==
    [pc |-> "idle", done |-> FALSE, done_all |-> FALSE, r |-> 0,
     acked |-> FALSE, complete |-> "none", registered |-> FALSE,
     last |-> NoNotifyReturn, n |-> 0]

(* the inode off the delayed-release list (list_empty(&ci->i_cap_delay_list)): *)
(* on_list counts its entries on mdsc->cap_delay_list, igrabs and iputs    *)
(* the references taken and dropped for the list, cancel and check are the *)
(* positions of a caller of __cap_delay_cancel and of the delayed work     *)
IdleDelay ==
    [on_list |-> 0, igrabs |-> 0, iputs |-> 0, cancel |-> "idle", check |-> "idle",
     stopping |-> FALSE, n |-> 0]

(* no file range handed to calc_file_object_mapping yet *)
IdleMapping ==
    [layout |-> [fl_object_size |-> 0, fl_stripe_unit |-> 0, fl_stripe_count |-> 0],
     off0 |-> 0, len0 |-> 0, off |-> 0, len |-> 0, extents |-> <<>>, n |-> 0]

CliIdle ==
    /\ rados = IdleRados
    /\ monreq = IdleMonreq
    /\ retry = IdleRetry
    /\ notify = IdleNotify
    /\ delayed = IdleDelay
    /\ mapping = IdleMapping

----------------------------------------------------------------------------
(* The state machine of the placement engine: a caller that computes the   *)
(* placement of x, and a map update that sets the weight of one device.    *)

CrushInit ==
    /\ cin \in {[map |-> sc.map, rule |-> sc.rule, x |-> x, result_max |-> ResultMax,
                 force |-> f, salt |-> s] :
                    sc \in Scenarios, x \in 0..MaxX, f \in {-1, 3}, s \in 0..MaxSalt}
    /\ weight \in InitWeights
    /\ runs = <<>>
    /\ nset = 0
    /\ osdmap = EmptyMap
    /\ last = IdleLast
    /\ nsteps = 0
    /\ monc = IdleMonc
    /\ ol = IdleOl
    /\ CapIdle
    /\ CliIdle

(* a call crush_do_rule(map, ruleno, x, result, result_max, force, weight) *)
DoRule(heap) ==
    /\ Len(runs) < MaxRuns
    /\ runs' = Append(runs,
                 [weight |-> weight,
                  res |-> crush_do_rule(cin.salt, cin.map, cin.rule, cin.x,
                                        cin.result_max, cin.force, weight, heap)])
    /\ UNCHANGED <<cin, weight, nset>>
    /\ UNCHANGED mapVars
    /\ UNCHANGED capVars
    /\ UNCHANGED cliVars

(* apply_incremental, new_offload: "map->crush->device_offload[osd] = off" *)
SetOffload(osd, off) ==
    /\ nset < MaxSet
    /\ osd < cin.map.max_devices
    /\ At(weight, osd) # off
    /\ weight' = Put(weight, osd, off)
    /\ nset' = nset + 1
    /\ UNCHANGED <<cin, runs>>
    /\ UNCHANGED mapVars
    /\ UNCHANGED capVars
    /\ UNCHANGED cliVars

CrushNext ==
    \/ \E heap \in 0..MaxHeap : DoRule(heap)
    \/ \E osd \in 0..4, off \in WeightVals : SetOffload(osd, off)

CrushSpec == CrushInit /\ [][CrushNext]_vars

----------------------------------------------------------------------------
(* Properties of the placement engine *)

Elems(seq) == {seq[i] : i \in 1..Len(seq)}

NoDup(seq) == \A i, j \in 1..Len(seq) : i # j => seq[i] # seq[j]

(* the runs of crush_do_rule that returned a result vector *)
Returned(i) == i \in 1..Len(runs) /\ ~runs[i].res.bug /\ runs[i].res.rc >= 0

(* the type of an item of a map: 0 for a device, the bucket's type otherwise *)
ItemType(map, item) ==
    IF item >= 0 THEN 0
    ELSE IF -item <= map.max_buckets THEN BucketOf(map, item).type
    ELSE -1

(* the type a rule asks for in its last choose step before the emit *)
RuleType(rule) ==
    LET st == rule[Len(rule) - 1]
    IN  IF IsLeafOp(st.op) THEN 0 ELSE st.arg2

(* the subsequence of seq of the elements in S *)
RECURSIVE Filter(_, _)
Filter(seq, S) ==
    IF seq = <<>> THEN <<>>
    ELSE IF Head(seq) \in S THEN <<Head(seq)>> \o Filter(Tail(seq), S)
    ELSE Filter(Tail(seq), S)

(* C1: the result vector of crush_do_rule contains no item twice. *)
C1_ResultDistinct ==
    \A i \in 1..Len(runs) : Returned(i) => NoDup(runs[i].res.result)

(* C2: every item the rule emits has the type its choose step asked for;  *)
(* a rule that chooses type 0 returns only devices (ids >= 0).            *)
C2_ResultHasType ==
    \A i \in 1..Len(runs) : Returned(i) =>
        \A e \in Elems(runs[i].res.result) :
            ItemType(cin.map, e) = RuleType(cin.rule)

(* C3: two runs of crush_do_rule with the same map, rule, x, result_max,  *)
(* force and weight vector return the same length and the same vector.    *)
C3_Deterministic ==
    \A i, j \in 1..Len(runs) :
        runs[i].weight = runs[j].weight => runs[i].res = runs[j].res

(* C4: a device whose offload value is 0x10000 is never in the result.    *)
C4_OffloadedNeverChosen ==
    \A i \in 1..Len(runs) : Returned(i) =>
        \A d \in 0..(cin.map.max_devices - 1) :
            At(runs[i].weight, d) = 65536 => d \notin Elems(runs[i].res.result)

(* run j follows run i after exactly device d was marked out *)
MarkedOutBetween(i, j, d) ==
    /\ Returned(i) /\ Returned(j) /\ i < j
    /\ d \in Elems(runs[i].res.result)
    /\ \A e \in 0..(cin.map.max_devices - 1) :
          e # d => At(runs[i].weight, e) = At(runs[j].weight, e)
    /\ ~is_out(cin.salt, runs[i].weight, d, cin.x)
    /\ is_out(cin.salt, runs[j].weight, d, cin.x)

(* C5: marking out one device d of the result R of a firstn rule changes  *)
(* the result only at d: the other devices of R stay, in the same         *)
(* relative order, and at most one device that was not in R comes in.     *)
(* Stated for the plain "choose firstn" step without a forced device,     *)
(* whose result is written by crush_choose alone.                         *)
C5_MarkOutIsLocal ==
    \A i, j \in 1..Len(runs) : \A d \in 0..(cin.map.max_devices - 1) :
        (MarkedOutBetween(i, j, d) /\ cin.force = -1
           /\ cin.rule[Len(cin.rule) - 1].op = CRUSH_RULE_CHOOSE_FIRSTN) =>
            LET R  == runs[i].res.result
                R2 == runs[j].res.result
                rest == Elems(R) \ {d}
            IN  /\ d \notin Elems(R2)
                /\ Filter(R2, rest) = Filter(R, rest)
                /\ Cardinality(Elems(R2) \ Elems(R)) <= 1

----------------------------------------------------------------------------
(* The state machine of the map handlers *)

IdleCin == [map |-> FlatMap(CRUSH_BUCKET_STRAW),
            rule |-> SimpleRule(CRUSH_RULE_CHOOSE_FIRSTN, 3, 0),
            x |-> 0, result_max |-> ResultMax, force |-> -1, salt |-> 0]

FirstMap == osdmap_decode(FullMsg(1, 4, 4, 2, 2, "none"), FALSE).map

(* an incremental map message arrives: apply_incremental runs on the map   *)
(* the client holds; the client keeps the map it returns.  After a BUG_ON  *)
(* nothing runs any more.                                                  *)
ApplyIncremental(inc, nomem) ==
    /\ nsteps < MaxSteps
    /\ osdmap.epoch > 0
    /\ osdmap.epoch < MaxEpoch
    /\ last.ret # "bug"
    /\ LET r == apply_incremental(inc, osdmap, nomem) IN
       /\ osdmap' = IF r.ret = "map" THEN r.newmap ELSE r.map
       /\ last' = [op |-> "inc", inc |-> inc, nomem |-> nomem, before |-> osdmap,
                   ret |-> r.ret, marked |-> r.marked]
    /\ nsteps' = nsteps + 1
    /\ UNCHANGED <<monc, ol, cin, weight, runs, nset>>
    /\ UNCHANGED capVars
    /\ UNCHANGED cliVars

(* a full map message arrives while the client holds no map *)
HandleFullMap(fm, nomem) ==
    /\ osdmap.epoch = 0
    /\ LET r == osdmap_decode(fm, nomem) IN
       /\ osdmap' = IF r.err THEN osdmap ELSE r.map
       /\ last' = [IdleLast EXCEPT !.op = "full", !.nomem = nomem,
                                   !.ret = IF r.err THEN "err" ELSE "map"]
    /\ UNCHANGED <<nsteps, monc, ol, cin, weight, runs, nset>>
    /\ UNCHANGED capVars
    /\ UNCHANGED cliVars

(* a monmap message arrives *)
HandleMonmap(msg, nomem) ==
    /\ nsteps < MaxSteps
    /\ monc' = handle_monmap(monc, msg, nomem)
    /\ nsteps' = nsteps + 1
    /\ UNCHANGED <<osdmap, last, ol, cin, weight, runs, nset>>
    /\ UNCHANGED capVars
    /\ UNCHANGED cliVars

(* the layout of an object is computed against the current map *)
CalcObjectLayout(oid, fl) ==
    /\ osdmap.epoch > 0
    /\ ol' = [valid |-> TRUE, ino_lo |-> oid.ino_lo, ino_hi |-> oid.ino_hi,
              bno |-> oid.bno, pgid |-> calc_object_layout(cin.salt, oid, fl, osdmap)]
    /\ UNCHANGED <<osdmap, last, nsteps, monc, cin, weight, runs, nset>>
    /\ UNCHANGED capVars
    /\ UNCHANGED cliVars

(* incremental maps only *)
MapInit ==
    /\ osdmap = FirstMap
    /\ last = IdleLast
    /\ nsteps = 0
    /\ monc = IdleMonc
    /\ ol = IdleOl
    /\ cin = IdleCin /\ weight = AllIn /\ runs = <<>> /\ nset = 0
    /\ CliIdle
    /\ CapIdle
    /\ CliIdle

MapNext ==
    \/ \E inc \in IncMsgs(osdmap.epoch) : ApplyIncremental(inc, FALSE)
    \/ \E inc \in {EmptyInc(osdmap.epoch + 1), BusyInc(osdmap.epoch + 1)} \cup
                  FullIncs(osdmap.epoch + 1) : ApplyIncremental(inc, TRUE)

MapSpec == MapInit /\ [][MapNext]_vars

(* map and monmap messages, as far as they move the epochs *)
EpochIncs(cur) ==
    {EmptyInc(cur + 1), BusyInc(cur + 1)} \cup FullIncs(cur + 1) \cup StaleIncs(cur)

EpochNext ==
    \/ \E inc \in EpochIncs(osdmap.epoch) : ApplyIncremental(inc, FALSE)
    \/ \E msg \in MonmapMsgs, nomem \in BOOLEAN : HandleMonmap(msg, nomem)

EpochSpec == MapInit /\ [][EpochNext]_vars

(* full maps and object layouts *)
PgNums == 1..MaxPgNum

Oids == [ino_lo : 0..1, ino_hi : 0..1, bno : 0..1]

Layouts == [fl_pg_preferred : {-1, 0}, fl_pg_type : {1}, fl_pg_size : {2},
            fl_object_stripe_unit : {0}]

PgInit ==
    /\ osdmap = EmptyMap
    /\ last = IdleLast
    /\ nsteps = 0
    /\ monc = IdleMonc
    /\ ol = IdleOl
    /\ cin \in {[IdleCin EXCEPT !.salt = sa] : sa \in 0..MaxSalt}
    /\ weight = AllIn /\ runs = <<>> /\ nset = 0
    /\ CapIdle
    /\ CliIdle

PgNext ==
    \/ \E pg \in PgNums, pgp \in PgNums, lpg \in PgNums, lpgp \in PgNums,
          cut \in {"none", "short"}, nomem \in BOOLEAN :
          HandleFullMap(FullMsg(1, pg, pgp, lpg, lpgp, cut), nomem)
    \/ \E oid \in Oids, fl \in Layouts : CalcObjectLayout(oid, fl)

PgSpec == PgInit /\ [][PgNext]_vars

----------------------------------------------------------------------------
(* Properties of the map handlers *)

(* C6: a call of apply_incremental either returns a map whose epoch is the *)
(* epoch of the map passed in plus one, or it reports an error; this for a *)
(* delta, for an incremental that embeds a full map, and for one whose     *)
(* epoch does not follow the current one.                                  *)
C6_NextEpochOrError ==
    last.op = "inc" =>
        \/ last.ret = "err"
        \/ last.ret = "map" /\ osdmap.epoch = last.before.epoch + 1

(* C7: no step lowers the epoch of the OSD map or of the monitor map the   *)
(* client holds.                                                           *)
C7_EpochNeverDecreases ==
    [][/\ osdmap'.epoch >= osdmap.epoch
       /\ monc'.monmap.epoch >= monc.monmap.epoch]_vars

(* max_osd once the new max-osd of an incremental is applied to map b *)
NewMax(inc, b) == IF inc.max >= 0 THEN inc.max ELSE b.max_osd

(* an incremental that is complete, follows map b and names only osds the  *)
(* new max-osd admits                                                      *)
WellFormedDelta(inc, b) ==
    /\ inc.cut = "none"
    /\ ~inc.has_full
    /\ inc.has_crush => ~inc.newcrush.bad
    /\ inc.epoch = b.epoch + 1
    /\ \A i \in 1..Len(inc.new_up) : inc.new_up[i].osd < NewMax(inc, b)
    /\ \A i \in 1..Len(inc.new_down) : inc.new_down[i] < NewMax(inc, b)
    /\ \A i \in 1..Len(inc.new_offload) : inc.new_offload[i].osd < NewMax(inc, b)

(* C8: every part of a well-formed incremental is applied to the map that  *)
(* is returned: the new max-osd, then the new CRUSH map, then the up and   *)
(* the down changes, then the offload changes (which so land in the new    *)
(* CRUSH map, also for an id only the new max-osd admits), then the        *)
(* pg-primary overrides.                                                   *)
C8_AllPartsApplied ==
    LET inc == last.inc
        b == last.before
    IN  (last.op = "inc" /\ ~last.nomem /\ WellFormedDelta(inc, b)) =>
        /\ last.ret = "map"
        /\ osdmap.epoch = b.epoch + 1
        /\ osdmap.max_osd = NewMax(inc, b)
        /\ inc.has_crush => osdmap.crush.max_buckets = inc.newcrush.max_buckets
        /\ \A i \in 1..Len(inc.new_up) :
              inc.new_up[i].osd \notin Elems(inc.new_down) =>
                 /\ "up" \in At(osdmap.osd_state, inc.new_up[i].osd)
                 /\ At(osdmap.osd_addr, inc.new_up[i].osd) = inc.new_up[i].addr
        /\ \A i \in 1..Len(inc.new_down) :
              "up" \notin At(osdmap.osd_state, inc.new_down[i])
        /\ \A i \in 1..Len(inc.new_offload) :
              /\ inc.new_offload[i].osd < osdmap.crush.max_devices
              /\ At(osdmap.crush.device_offload, inc.new_offload[i].osd)
                    = inc.new_offload[i].off
        /\ Elems(inc.new_pg_swap_primary) \subseteq Elems(osdmap.pg_swap_primary)

(* C9: the placement seed of a computed layout is bno + H(ino, ino >> 32)  *)
(* masked to pg_num_mask, or to lpg_num_mask when a preferred osd is set,  *)
(* and so is at most the mask (x masked to 2^k - 1 is x mod 2^k).          *)
C9_SeedIsMasked ==
    ol.valid =>
        LET mask == IF ol.pgid.preferred >= 0 THEN osdmap.lpg_num_mask
                    ELSE osdmap.pg_num_mask
            h == crush_hash32_2(cin.salt, ol.ino_lo, ol.ino_hi)
        IN  /\ ol.pgid.ps <= mask
            /\ ol.pgid.ps = (ol.bno + h.lo) % (mask + 1)

(* the least k with 2^k >= n *)
CeilLog2(n) == CHOOSE k \in 0..32 : 2^k >= n /\ \A j \in 0..(k - 1) : 2^j < n

----------------------------------------------------------------------------
(* The capability engine.  K is the pair of the inode ci and the MDS        *)
(* client mdsc an operation works on; sess is the table of sessions and    *)
(* now the value of jiffies.                                               *)

Caps == {"PIN", "RDCACHE", "RD", "WR", "WRBUFFER", "EXCL"}

(* ceph_caps_for_mode is declared in ceph_fs.h; the file modes are 0 for   *)
(* pin, 1 for read, 2 for write and 3 for both                             *)
ceph_caps_for_mode(mode) ==
    CASE mode = 0 -> {"PIN"}
      [] mode = 1 -> {"PIN", "RD", "RDCACHE"}
      [] mode = 2 -> {"PIN", "WR", "WRBUFFER", "EXCL"}
      [] OTHER    -> {"PIN", "RD", "RDCACHE", "WR", "WRBUFFER", "EXCL"}

__ceph_caps_used(c) ==
    (IF c.i_rd_ref # 0 THEN {"RD"} ELSE {})
    \cup (IF c.i_rdcache_ref # 0 \/ c.i_rdcache_gen # 0 THEN {"RDCACHE"} ELSE {})
    \cup (IF c.i_wr_ref # 0 THEN {"WR"} ELSE {})
    \cup (IF c.i_wrbuffer_ref # 0 THEN {"WRBUFFER"} ELSE {})

__ceph_caps_file_wanted(c) ==
    UNION {IF At(c.i_nr_by_mode, mode) # 0 THEN ceph_caps_for_mode(mode) ELSE {} :
              mode \in 0..3}

__ceph_caps_wanted(c) ==
    LET w == __ceph_caps_file_wanted(c) \cup __ceph_caps_used(c) IN
    IF "WRBUFFER" \in w THEN w \cup {"EXCL"} ELSE w

(* "cap->gen < gen || time_after_eq(jiffies, ttl)" *)
cap_is_stale(cap, s, now) == cap.gen < s.s_cap_gen \/ now >= s.s_cap_ttl

HasCaps(c) == \E m \in Mds : c.i_caps[m].present

(* the loop of __ceph_caps_issued over the caps from mds m on; impl is the *)
(* value the caller's variable implemented holds when the call starts      *)
RECURSIVE caps_issued_from(_, _, _, _, _)
caps_issued_from(c, sess, now, m, acc) ==
    IF m > MaxMds THEN acc
    ELSE LET cap == c.i_caps[m] IN
         IF ~cap.present \/ cap_is_stale(cap, sess[m], now)
         THEN caps_issued_from(c, sess, now, m + 1, acc)
         ELSE caps_issued_from(c, sess, now, m + 1,
                  [have |-> acc.have \cup cap.issued,
                   implemented |-> acc.implemented \cup cap.implemented])

(* the same loop without the staleness test *)
RECURSIVE caps_issued_all_from(_, _, _)
caps_issued_all_from(c, m, acc) ==
    IF m > MaxMds THEN acc
    ELSE caps_issued_all_from(c, m + 1,
             IF c.i_caps[m].present THEN acc \cup c.i_caps[m].issued ELSE acc)

caps_issued_all(c, sess, now) == caps_issued_all_from(c, 0, c.i_snap_caps)

__ceph_caps_issued(c, sess, now) ==
    caps_issued_from(c, sess, now, 0, [have |-> c.i_snap_caps, implemented |-> {}]).have

(* ceph_get_cap_refs passes a variable it never initialised; impl is what  *)
(* that variable holds                                                     *)
caps_implemented(c, sess, now, impl) ==
    caps_issued_from(c, sess, now, 0, [have |-> c.i_snap_caps, implemented |-> impl]).implemented

(* ceph_put_snap_realm drops one reference *)
ceph_put_snap_realm(md) == [md EXCEPT !.realm_nref = @ - 1]

(* ceph_update_snap_trace returns the realm with a reference taken for the *)
(* caller; the realm of the inode is realm 1                               *)
ceph_update_snap_trace(md) == [md EXCEPT !.realm_nref = @ + 1]

(* ceph_add_cap from retry on, but with the bits of the cap assigned       *)
(* instead of added                                                        *)
add_cap_locked_assign(K, sess, mds, fmode, issued, seq, mseq) ==
    LET keep == K.ci.i_snap_realm = 0
        c2 == [K.ci EXCEPT
                 !.i_snap_realm = IF keep THEN 1 ELSE @,
                 !.i_caps[mds] = [present |-> TRUE, issued |-> issued,
                                  implemented |-> issued, seq |-> seq, mseq |-> mseq,
                                  gen |-> sess[mds].s_cap_gen],
                 !.i_nr_by_mode = IF fmode >= 0 THEN Put(@, fmode, At(@, fmode) + 1)
                                  ELSE @]
    IN  [ci |-> c2,
         mdsc |-> IF keep THEN K.mdsc ELSE ceph_put_snap_realm(K.mdsc),
         err |-> FALSE]

(* ceph_add_cap from retry on, the realm being held; a cap structure is at *)
(* hand (passed in or allocated)                                           *)
add_cap_locked(K, sess, mds, fmode, issued, seq, mseq) ==
    LET c0 == K.ci
        had == c0.i_caps[mds].present
        c1 == IF had THEN c0
              ELSE [c0 EXCEPT
                      !.i_caps[mds] = [NoCap EXCEPT !.present = TRUE],
                      !.i_cap_exporting_issued =
                          IF c0.i_cap_exporting_mds = mds THEN {} ELSE @,
                      !.i_cap_exporting_mseq =
                          IF c0.i_cap_exporting_mds = mds THEN 0 ELSE @,
                      !.i_cap_exporting_mds =
                          IF c0.i_cap_exporting_mds = mds THEN -1 ELSE @]
        keep == c1.i_snap_realm = 0
        c2 == [c1 EXCEPT
                 !.i_snap_realm = IF keep THEN 1 ELSE @,
                 !.i_caps[mds].issued = @ \cup issued,
                 !.i_caps[mds].implemented = @ \cup issued,
                 !.i_caps[mds].seq = seq,
                 !.i_caps[mds].mseq = mseq,
                 !.i_caps[mds].gen = sess[mds].s_cap_gen,
                 !.i_nr_by_mode = IF fmode >= 0 THEN Put(@, fmode, At(@, fmode) + 1)
                                  ELSE @]
    IN  [ci |-> c2,
         mdsc |-> IF keep THEN K.mdsc ELSE ceph_put_snap_realm(K.mdsc),
         err |-> FALSE]

(* the same, but the realm reference is kept although the inode has one *)
ceph_add_cap_leak(K, sess, mds, fmode, issued, seq, mseq, new_cap, nomem) ==
    LET K1 == [ci |-> K.ci, mdsc |-> ceph_update_snap_trace(K.mdsc)]
        r == add_cap_locked(K1, sess, mds, fmode, issued, seq, mseq)
    IN  IF ~K.ci.i_caps[mds].present /\ ~new_cap /\ nomem
        THEN [ci |-> K.ci, mdsc |-> ceph_put_snap_realm(K1.mdsc), err |-> TRUE]
        ELSE [r EXCEPT !.mdsc = K1.mdsc]

ceph_add_cap(K, sess, mds, fmode, issued, seq, mseq, new_cap, nomem) ==
    LET K1 == [ci |-> K.ci, mdsc |-> ceph_update_snap_trace(K.mdsc)] IN
    IF ~K.ci.i_caps[mds].present /\ ~new_cap /\ nomem
    THEN [ci |-> K.ci, mdsc |-> ceph_put_snap_realm(K1.mdsc), err |-> TRUE]
    ELSE add_cap_locked(K1, sess, mds, fmode, issued, seq, mseq)

(* __ceph_remove_cap: last says the inode has no cap left *)
__ceph_remove_cap(K, mds) ==
    LET c1 == [K.ci EXCEPT !.i_caps[mds] = NoCap] IN
    IF ~HasCaps(c1)
    THEN [ci |-> [c1 EXCEPT !.i_snap_realm = 0],
          mdsc |-> ceph_put_snap_realm(K.mdsc), last |-> TRUE]
    ELSE [ci |-> c1, mdsc |-> K.mdsc, last |-> FALSE]

(* From here on K also carries sent, the cap messages handed to the        *)
(* messenger so far, nomem, whether ceph_msg_new fails, and spin, set when *)
(* a loop of the code cannot end.                                          *)

HoldSecs == 5

(* __cap_delay_requeue; round_jiffies rounds to a whole second, the unit   *)
(* of the clock here                                                       *)
__cap_delay_requeue(K, now) ==
    [K EXCEPT !.ci.i_hold_caps_until = now + HoldSecs,
              !.mdsc.cap_delay_list = IF K.mdsc.stopping THEN @ ELSE TRUE]

__cap_delay_cancel(K) == [K EXCEPT !.mdsc.cap_delay_list = FALSE]

(* send_cap_msg: nothing is sent when the message cannot be allocated *)
send_cap_msg(K, op, caps, wanted, seq, mseq, follows, mds) ==
    IF K.nomem THEN K
    ELSE [K EXCEPT !.sent = Append(@, [op |-> op, caps |-> caps, wanted |-> wanted,
                                       seq |-> seq, mseq |-> mseq,
                                       follows |-> follows, mds |-> mds])]

(* __send_cap: "if (revoking && (revoking && used) == 0)" holds when some  *)
(* bit is being revoked and no bit at all is in use                        *)
__send_cap(K, mds, used, wanted) ==
    LET cap == K.ci.i_caps[mds]
        revoking == cap.implemented \ cap.issued
        issued == cap.issued \cap wanted
        K1 == [K EXCEPT
                 !.ci.i_caps[mds].issued = issued,
                 !.ci.i_caps[mds].implemented =
                     IF revoking # {} /\ ~(revoking # {} /\ used # {}) THEN issued ELSE @,
                 !.ci.i_reported_size = K.ci.i_size,
                 !.ci.i_requested_max_size = K.ci.i_wanted_max_size]
    IN  send_cap_msg(K1, IF wanted = {} THEN "RELEASE" ELSE "ACK", issued, wanted,
                     cap.seq, cap.mseq, 0, mds)

(* __ceph_get_cap_mds: the last cap looked at, the walk stopping at a cap  *)
(* that holds WR, WRBUFFER or EXCL; mds -1 when the inode has no cap       *)
RECURSIVE get_cap_mds_from(_, _, _)
get_cap_mds_from(c, m, acc) ==
    IF m > MaxMds THEN acc
    ELSE LET cap == c.i_caps[m] IN
         IF ~cap.present THEN get_cap_mds_from(c, m + 1, acc)
         ELSE IF cap.issued \cap {"WR", "WRBUFFER", "EXCL"} # {}
              THEN [mds |-> m, mseq |-> cap.mseq]
              ELSE get_cap_mds_from(c, m + 1, [mds |-> m, mseq |-> cap.mseq])

__ceph_get_cap_mds(c) == get_cap_mds_from(c, 0, [mds |-> -1, mseq |-> 0])

(* __ceph_flush_snaps from list position i on, follows being the last      *)
(* value sent: every cap_snap that is neither dirty nor writing is sent,   *)
(* the others are stepped over.  Without a cap there is no session to     *)
(* take and the retry loop never ends.                                     *)
RECURSIVE flush_snaps_from(_, _, _)
flush_snaps_from(K, i, follows) ==
    IF i > Len(K.ci.i_cap_snaps) THEN K
    ELSE LET capsnap == K.ci.i_cap_snaps[i]
             at == __ceph_get_cap_mds(K.ci)
         IN  IF capsnap.follows <= follows THEN flush_snaps_from(K, i + 1, follows)
             ELSE IF capsnap.dirty # 0 \/ capsnap.writing
                  THEN flush_snaps_from(K, i + 1, follows)
             ELSE IF at.mds < 0 THEN [K EXCEPT !.spin = TRUE]
             ELSE flush_snaps_from(
                      send_cap_msg(K, "FLUSHSNAP", capsnap.issued, {}, 0, at.mseq,
                                   capsnap.follows, at.mds),
                      1, capsnap.follows)

__ceph_flush_snaps(K) == flush_snaps_from(K, 1, 0)

(* the scan of ceph_check_caps over the caps from mds m on *)
RECURSIVE check_caps_from(_, _, _)
check_caps_from(K, now, m) ==
    IF m > MaxMds THEN K
    ELSE LET c == K.ci
             cap == c.i_caps[m]
             wanted == __ceph_caps_wanted(c)
             used == __ceph_caps_used(c)
             revoking == cap.implemented \ cap.issued
             ack == \/ /\ c.i_wanted_max_size > c.i_max_size
                       /\ c.i_wanted_max_size > c.i_requested_max_size
                    \/ /\ "WR" \in cap.issued
                       /\ 2 * c.i_size >= c.i_max_size
                       /\ 2 * c.i_reported_size < c.i_max_size
                    \/ /\ revoking # {}
                       /\ revoking \cap used = {}
                    \/ /\ cap.issued \ wanted # {}
                       /\ ~(now < c.i_hold_caps_until)
         IN  IF cap.present /\ ack
             THEN check_caps_from(__send_cap(K, m, used, wanted), now, m + 1)
             ELSE check_caps_from(K, now, m + 1)

check_caps_scan(K, now, is_delayed) ==
    IF K.spin THEN K
    ELSE check_caps_from(IF is_delayed THEN K ELSE __cap_delay_requeue(K, now), now, 0)

ceph_check_caps(K, now, is_delayed) ==
    check_caps_scan(IF K.ci.i_cap_snaps # <<>> THEN __ceph_flush_snaps(K) ELSE K,
                    now, is_delayed)

(* __take_cap_refs *)
__take_cap_refs(c, got) ==
    [c EXCEPT !.i_rd_ref = IF "RD" \in got THEN @ + 1 ELSE @,
              !.i_rdcache_ref = IF "RDCACHE" \in got THEN @ + 1 ELSE @,
              !.i_wr_ref = IF "WR" \in got THEN @ + 1 ELSE @,
              !.i_wrbuffer_ref = IF "WRBUFFER" \in got THEN @ + 1 ELSE @]

(* "a cap_snap is pending if it is still awaiting an in-progress sync write" *)
__ceph_have_pending_cap_snap(c) ==
    c.i_cap_snaps # <<>> /\ c.i_cap_snaps[Len(c.i_cap_snaps)].writing

(* ceph_get_cap_refs: ret says the references were taken; impl is what the *)
(* caller's uninitialised variable implemented held                        *)
ceph_get_cap_refs(c, sess, now, need, want, endoff, impl) ==
    LET have == __ceph_caps_issued(c, sess, now)
        implemented == caps_implemented(c, sess, now, impl)
        not == want \ (have \cap need)
        revoking == implemented \ have
        got == need \cup (have \cap want)
    IN  IF "WR" \in need /\ ((endoff >= 0 /\ endoff > c.i_max_size)
                              \/ __ceph_have_pending_cap_snap(c))
        THEN [ci |-> c, ret |-> FALSE, got |-> {}]
        ELSE IF need \subseteq have /\ revoking \cap not = {}
             THEN [ci |-> __take_cap_refs(c, got), ret |-> TRUE, got |-> got]
             ELSE [ci |-> c, ret |-> FALSE, got |-> {}]

(* __ceph_finish_cap_snap is defined in snap.c: the cap_snap can be        *)
(* flushed once no dirty page is left                                      *)
__ceph_finish_cap_snap(c, capsnap) == capsnap.dirty = 0

(* the counts of ceph_put_cap_refs as they are decremented *)
put_cap_refs_counts(c, had) ==
    [c EXCEPT !.i_rd_ref = IF "RD" \in had THEN @ - 1 ELSE @,
              !.i_rdcache_ref = IF "RDCACHE" \in had THEN @ - 1 ELSE @,
              !.i_wrbuffer_ref = IF "WRBUFFER" \in had THEN @ - 1 ELSE @,
              !.i_wr_ref = IF "WR" \in had THEN @ - 1 ELSE @]

put_cap_refs_last(c, had) ==
    \/ "RD" \in had /\ c.i_rd_ref = 0
    \/ "RDCACHE" \in had /\ c.i_rdcache_ref = 0
    \/ "WRBUFFER" \in had /\ c.i_wrbuffer_ref = 0
    \/ "WR" \in had /\ c.i_wr_ref = 0

(* ceph_put_cap_refs: the cap_snap looked at is the first of the list *)
ceph_put_cap_refs(K, now, had) ==
    LET c1 == put_cap_refs_counts(K.ci, had)
        lastref == put_cap_refs_last(c1, had)
        finish == /\ "WR" \in had /\ c1.i_wr_ref = 0
                  /\ c1.i_cap_snaps # <<>> /\ c1.i_cap_snaps[1].writing
        c2 == IF finish THEN [c1 EXCEPT !.i_cap_snaps[1].writing = FALSE] ELSE c1
        flushsnaps == finish /\ __ceph_finish_cap_snap(c2, c2.i_cap_snaps[1])
        K2 == [K EXCEPT !.ci = c2]
    IN  IF lastref /\ ~flushsnaps THEN ceph_check_caps(K2, now, FALSE)
        ELSE IF flushsnaps THEN __ceph_flush_snaps(K2)
        ELSE K2

(* the position in i_cap_snaps of the first cap_snap of context snapc, 0   *)
(* when there is none                                                      *)
RECURSIVE capsnap_of(_, _, _)
capsnap_of(snaps, snapc, i) ==
    IF i > Len(snaps) THEN 0
    ELSE IF snaps[i].context = snapc THEN i
    ELSE capsnap_of(snaps, snapc, i + 1)

(* ceph_put_wrbuffer_cap_refs; the context of the head is the current seq  *)
(* of the realm, read through i_snap_realm, which is NULL when the inode   *)
(* has no cap.  BUG_ON(!capsnap) fires on an empty list only.              *)
ceph_put_wrbuffer_cap_refs(K, now, nr, snapc) ==
    LET c0 == K.ci
        head == snapc = K.mdsc.seq
        i == capsnap_of(c0.i_cap_snaps, snapc, 1)
        c1 == [c0 EXCEPT
                 !.i_wrbuffer_ref = @ - nr,
                 !.i_wrbuffer_ref_head = IF head THEN @ - nr ELSE @,
                 !.i_cap_snaps = IF ~head /\ i > 0
                                 THEN [@ EXCEPT ![i].dirty = @ - nr] ELSE @]
        lastref == c1.i_wrbuffer_ref = 0
        last_snap == ~head /\ i > 0 /\ c1.i_cap_snaps[i].dirty = 0
        K1 == [K EXCEPT !.ci = c1]
    IN  IF c0.i_snap_realm = 0 THEN [K EXCEPT !.bug = TRUE]
        ELSE IF ~head /\ c0.i_cap_snaps = <<>> THEN [K1 EXCEPT !.bug = TRUE]
        ELSE IF lastref THEN ceph_check_caps(K1, now, FALSE)
        ELSE IF last_snap THEN __ceph_flush_snaps(K1)
        ELSE K1

(* handle_cap_grant, the RDCACHE part: invalidate_inode_pages2 is tried    *)
(* once and its result replaced by -EBUSY, so invalidate is set whenever   *)
(* RDCACHE is revoked and no buffered write is referenced                  *)
grant_rdcache(c, sess, now, mds, newcaps) ==
    LET revoked == c.i_caps[mds].issued \ newcaps
        inval == "RDCACHE" \in revoked /\ c.i_wrbuffer_ref = 0
        held == "RDCACHE" \in revoked /\ "RDCACHE" \in __ceph_caps_issued(c, sess, now)
        invalidate == inval /\ ~(held /\ c.i_rdcache_pending)
    IN  [ci |-> [c EXCEPT
                   !.i_rdcache_gen = IF held /\ ~c.i_rdcache_pending THEN @ + 1 ELSE @,
                   !.i_rdcache_pending = @ \/ invalidate],
         invalidate |-> invalidate]

(* handle_cap_grant, "max size increase?" *)
grant_max_size(c, max_size) ==
    IF max_size = c.i_max_size THEN c
    ELSE [c EXCEPT !.i_max_size = max_size,
                   !.i_wanted_max_size = IF max_size >= @ THEN 0 ELSE @,
                   !.i_requested_max_size =
                       IF max_size >= c.i_wanted_max_size THEN 0 ELSE @]

(* handle_cap_grant, "check cap bits": a revocation is acknowledged at     *)
(* once unless WRBUFFER is revoked while in use or pages are to be         *)
(* invalidated                                                             *)
grant_bits(c, mds, newcaps, seq, invalidate) ==
    LET cap == c.i_caps[mds]
        used == __ceph_caps_used(c)
        writeback == "WRBUFFER" \in used \ newcaps
        acknow == ~writeback /\ ~invalidate
    IN  IF cap.issued \ newcaps # {}
        THEN [ci |-> [c EXCEPT !.i_caps[mds].seq = seq,
                               !.i_caps[mds].implemented = IF acknow THEN newcaps ELSE @,
                               !.i_caps[mds].issued = newcaps],
              reply |-> acknow]
        ELSE [ci |-> [c EXCEPT !.i_caps[mds].seq = seq,
                               !.i_caps[mds].issued = newcaps,
                               !.i_caps[mds].implemented =
                                   IF cap.issued = newcaps THEN @ ELSE @ \cup newcaps],
              reply |-> FALSE]

grant_after_rdcache(r, mds, newcaps, seq, max_size) ==
    grant_bits(grant_max_size(r.ci, max_size), mds, newcaps, seq, r.invalidate)

handle_cap_grant(K, sess, now, mds, newcaps, seq, max_size) ==
    IF ~K.ci.i_caps[mds].present THEN K
    ELSE LET c1 == [K.ci EXCEPT !.i_caps[mds].gen = sess[mds].s_cap_gen]
             r == grant_after_rdcache(grant_rdcache(c1, sess, now, mds, newcaps),
                                      mds, newcaps, seq, max_size)
         IN  [K EXCEPT !.ci = r.ci, !.reply = r.reply]

(* handle_cap_released: "BUG_ON(!cap)" *)
handle_cap_released(K, mds) ==
    IF ~K.ci.i_caps[mds].present THEN [K EXCEPT !.bug = TRUE]
    ELSE LET r == __ceph_remove_cap(K, mds)
             K1 == [K EXCEPT !.ci = r.ci, !.mdsc = r.mdsc]
         IN  IF r.last THEN __cap_delay_cancel(K1) ELSE K1

(* handle_cap_flushedsnap: the first cap_snap of that follows is dropped *)
RECURSIVE drop_capsnap(_, _)
drop_capsnap(snaps, follows) ==
    IF snaps = <<>> THEN <<>>
    ELSE IF Head(snaps).follows = follows THEN Tail(snaps)
    ELSE <<Head(snaps)>> \o drop_capsnap(Tail(snaps), follows)

handle_cap_flushedsnap(K, follows) ==
    [K EXCEPT !.ci.i_cap_snaps = drop_capsnap(@, follows)]

(* handle_cap_export, but noting the export whatever mseq the caps hold *)
handle_cap_export_always(K, mds, mseq) ==
    IF ~K.ci.i_caps[mds].present THEN K
    ELSE LET c1 == [K.ci EXCEPT !.i_cap_exporting_mds = mds,
                                !.i_cap_exporting_mseq = mseq,
                                !.i_cap_exporting_issued = K.ci.i_caps[mds].issued]
             r == __ceph_remove_cap([K EXCEPT !.ci = c1], mds)
         IN  [K EXCEPT !.ci = r.ci, !.mdsc = r.mdsc]

(* handle_cap_export: the export is noted unless a cap holds a higher      *)
(* mseq; the cap of the exporting mds is removed either way                *)
handle_cap_export(K, mds, mseq) ==
    IF ~K.ci.i_caps[mds].present THEN K
    ELSE LET remember == ~\E m \in Mds : K.ci.i_caps[m].present /\ K.ci.i_caps[m].mseq > mseq
             c1 == IF remember
                   THEN [K.ci EXCEPT !.i_cap_exporting_mds = mds,
                                     !.i_cap_exporting_mseq = mseq,
                                     !.i_cap_exporting_issued = K.ci.i_caps[mds].issued]
                   ELSE K.ci
             r == __ceph_remove_cap([K EXCEPT !.ci = c1], mds)
         IN  [K EXCEPT !.ci = r.ci, !.mdsc = r.mdsc]

(* handle_cap_import: the result of ceph_add_cap is not looked at *)
handle_cap_import(K, sess, mds, issued, seq, mseq, nomem) ==
    LET clear == K.ci.i_cap_exporting_mds >= 0 /\ K.ci.i_cap_exporting_mseq < mseq
        c1 == IF clear
              THEN [K.ci EXCEPT !.i_cap_exporting_issued = {},
                                !.i_cap_exporting_mseq = 0,
                                !.i_cap_exporting_mds = -1]
              ELSE K.ci
        r == ceph_add_cap([K EXCEPT !.ci = c1], sess, mds, -1, issued, seq, mseq,
                          FALSE, nomem)
    IN  [K EXCEPT !.ci = r.ci, !.mdsc = r.mdsc]

(* ceph_handle_caps for a message h of the mds about this inode: a GRANT   *)
(* is sent back when handle_cap_grant says so, ceph_check_caps follows an  *)
(* IMPORT                                                                  *)
handle_caps_reply(K, h) ==
    IF K.reply
    THEN [K EXCEPT !.sent = Append(@, [op |-> "GRANT", caps |-> h.caps,
                                       wanted |-> __ceph_caps_wanted(K.ci),
                                       seq |-> h.seq, mseq |-> h.mseq,
                                       follows |-> 0, mds |-> h.mds])]
    ELSE K

ceph_handle_caps(K, sess, now, h, nomem) ==
    CASE h.op = "GRANT" ->
             handle_caps_reply(
                 handle_cap_grant(K, sess, now, h.mds, h.caps, h.seq, h.max_size), h)
      [] h.op = "RELEASED" -> handle_cap_released(K, h.mds)
      [] h.op = "FLUSHEDSNAP" -> handle_cap_flushedsnap(K, h.follows)
      [] h.op = "EXPORT" -> handle_cap_export(K, h.mds, h.mseq)
      [] h.op = "IMPORT" ->
             ceph_check_caps(
                 handle_cap_import(K, sess, h.mds, h.caps, h.seq, h.mseq, nomem),
                 now, TRUE)
      [] OTHER -> K

(* ceph_check_delayed_caps with this inode at the head of the list *)
ceph_check_delayed_caps(K, now) ==
    IF ~K.mdsc.cap_delay_list \/ now < K.ci.i_hold_caps_until THEN K
    ELSE ceph_check_caps([K EXCEPT !.mdsc.cap_delay_list = FALSE], now, TRUE)

(* ceph_flush_write_caps for the cap this inode holds in the session *)
flush_write_cap(K, mds) ==
    IF K.spin \/ K.ci.i_caps[mds].implemented \cap {"WR", "WRBUFFER"} = {} THEN K
    ELSE __send_cap(K, mds, {}, {})

ceph_flush_write_caps(K, mds) ==
    IF ~K.ci.i_caps[mds].present THEN K
    ELSE flush_write_cap(IF K.ci.i_cap_snaps # <<>> THEN __ceph_flush_snaps(K) ELSE K, mds)

(* check_max_size of file.c *)
check_max_size(K, now, endoff) ==
    IF (endoff >= K.ci.i_max_size \/ endoff > 2 * K.ci.i_size)
       /\ endoff > K.ci.i_wanted_max_size
    THEN ceph_check_caps([K EXCEPT !.ci.i_wanted_max_size = endoff], now, FALSE)
    ELSE K

(* ceph_put_fmode is defined in inode.c: the last close of a mode checks   *)
(* the caps                                                                *)
ceph_put_fmode(K, now, fmode) ==
    LET K1 == [K EXCEPT !.ci.i_nr_by_mode = Put(@, fmode, At(@, fmode) - 1)] IN
    IF At(K1.ci.i_nr_by_mode, fmode) = 0 THEN ceph_check_caps(K1, now, FALSE) ELSE K1

(* ceph_queue_cap_snap is defined in snap.c: the cap_snap of a new snap    *)
(* follows the seq of the context the dirty pages were written under and   *)
(* takes over the dirty pages of the head                                  *)
ceph_queue_cap_snap(K, sess, now) ==
    [K EXCEPT !.ci.i_cap_snaps =
                  Append(@, [follows |-> K.mdsc.seq, context |-> K.mdsc.seq,
                             issued |-> __ceph_caps_issued(K.ci, sess, now),
                             dirty |-> K.ci.i_wrbuffer_ref_head,
                             writing |-> K.ci.i_wr_ref # 0]),
              !.ci.i_wrbuffer_ref_head = 0,
              !.mdsc.seq = @ + 1]

----------------------------------------------------------------------------
(* The state machine of the capability engine: one inode, the sessions of  *)
(* the metadata servers, the local file operations and the clock.          *)

AddMasks == {{"PIN", "RD", "RDCACHE"}, Caps}

GrantMasks == {{}, {"PIN", "RD", "WR"}, {"PIN", "RD", "RDCACHE"}, Caps}

TtlSecs == 5

CapMsg(op, mds, caps, mseq, max_size, follows) ==
    [op |-> op, mds |-> mds, caps |-> caps, seq |-> 1, mseq |-> mseq,
     max_size |-> max_size, follows |-> follows]

GrantMsgs(sizes) == {CapMsg("GRANT", m, caps, 0, sz, 0) : m \in Mds, caps \in GrantMasks, sz \in sizes}

ReleasedMsgs == {CapMsg("RELEASED", m, {}, 0, 0, 0) : m \in Mds}

FlushedsnapMsgs == {CapMsg("FLUSHEDSNAP", 0, {}, 0, 0, f) : f \in 1..MaxSnaps}

ExportMsgs == {CapMsg("EXPORT", m, {}, q, 0, 0) : m \in Mds, q \in 0..MaxMseq}

ImportMsgs == {CapMsg("IMPORT", m, {"PIN", "RD", "WR"}, q, 0, 0) : m \in Mds, q \in 0..MaxMseq}

CapK(nomem) ==
    [ci |-> ci, mdsc |-> mdsc, sent |-> <<>>, nomem |-> nomem, spin |-> FALSE,
     bug |-> FALSE, reply |-> FALSE]

(* the operation op ends in K *)
CapDone(K, op, mds, caps, arg) ==
    /\ ci' = K.ci
    /\ mdsc' = K.mdsc
    /\ capl.n < capl.max
    /\ capl' = [n |-> capl.n + 1, max |-> capl.max,
                op |-> op, mds |-> mds, caps |-> caps, arg |-> arg, reply |-> K.reply,
                sent |-> K.sent, bug |-> K.bug \/ K.spin, spin |-> K.spin,
                pre |-> IF mds \in Mds THEN ci.i_caps[mds] ELSE NoCap,
                used |-> __ceph_caps_used(ci)]
    /\ UNCHANGED <<session, jiffies>>
    /\ UNCHANGED crushVars
    /\ UNCHANGED mapVars
    /\ UNCHANGED cliVars

RefsInBounds(c) ==
    /\ c.i_rd_ref <= MaxRef /\ c.i_rdcache_ref <= MaxRef /\ c.i_wr_ref <= MaxRef
    /\ c.i_wrbuffer_ref <= MaxRef + MaxDirty

DirtyPages(c) ==
    LET RECURSIVE sum(_)
        sum(i) == IF i > Len(c.i_cap_snaps) THEN 0 ELSE c.i_cap_snaps[i].dirty + sum(i + 1)
    IN  c.i_wrbuffer_ref_head + sum(1)

(* the reply to an open adds a cap (fill_inode calls ceph_add_cap) *)
AddCap(mds, fmode, issued, mseq, nomem) ==
    /\ ~capl.bug
    /\ fmode >= 0 => At(ci.i_nr_by_mode, fmode) < MaxRef
    /\ LET r == ceph_add_cap(CapK(nomem), session, mds, fmode, issued, 1, mseq,
                             FALSE, nomem)
       IN  CapDone([CapK(nomem) EXCEPT !.ci = r.ci, !.mdsc = r.mdsc, !.bug = r.err],
                   "add", mds, issued, mseq)

(* a cap message of an mds arrives *)
HandleCaps(h, nomem) ==
    /\ ~capl.bug
    /\ ci.i_rdcache_gen < MaxGen \/ h.op # "GRANT"
    /\ CapDone(ceph_handle_caps(CapK(nomem), session, jiffies, h, nomem),
               h.op, h.mds, h.caps, IF h.op = "FLUSHEDSNAP" THEN h.follows ELSE h.mseq)

(* a read or a write gets its cap references (ceph_aio_read, ceph_aio_write) *)
GetCapRefs(need, want, endoff, impl) ==
    /\ ~capl.bug
    /\ LET r == ceph_get_cap_refs(ci, session, jiffies, need, want, endoff, impl) IN
       /\ r.ret
       /\ RefsInBounds(r.ci)
       /\ CapDone([CapK(FALSE) EXCEPT !.ci = r.ci], "get", -1, r.got, endoff)

(* the read or write is over *)
PutCapRefs(had, nomem) ==
    /\ ~capl.bug
    /\ "RD" \in had => ci.i_rd_ref > 0
    /\ "RDCACHE" \in had => ci.i_rdcache_ref > 0
    /\ "WR" \in had => ci.i_wr_ref > 0
    /\ "WRBUFFER" \in had => ci.i_wrbuffer_ref > DirtyPages(ci)
    /\ CapDone(ceph_put_cap_refs(CapK(nomem), jiffies, had), "put", -1, had, 0)

(* a buffered write dirties a page of the head (set_page_dirty in addr.c) *)
SetPageDirty ==
    /\ ~capl.bug
    /\ ci.i_wrbuffer_ref > DirtyPages(ci)
    /\ DirtyPages(ci) < MaxDirty
    /\ CapDone([CapK(FALSE) EXCEPT !.ci.i_wrbuffer_ref = @ + 1,
                                   !.ci.i_wrbuffer_ref_head = @ + 1],
               "dirty", -1, {}, 0)

(* a page written under context snapc has reached the OSDs *)
PutWrbufferCapRefs(snapc, nomem) ==
    /\ ~capl.bug
    /\ \/ snapc = mdsc.seq /\ ci.i_wrbuffer_ref_head > 0
       \/ \E i \in 1..Len(ci.i_cap_snaps) :
             ci.i_cap_snaps[i].context = snapc /\ ci.i_cap_snaps[i].dirty > 0
    /\ CapDone(ceph_put_wrbuffer_cap_refs(CapK(nomem), jiffies, 1, snapc),
               "put_wrbuffer", -1, {}, snapc)

(* a snapshot is taken while writes are in flight *)
QueueCapSnap ==
    /\ ~capl.bug
    /\ mdsc.seq <= MaxSnaps
    /\ ci.i_wrbuffer_ref_head > 0 \/ ci.i_wr_ref > 0
    /\ CapDone(ceph_queue_cap_snap(CapK(FALSE), session, jiffies), "snap", -1, {},
               mdsc.seq)

(* the delayed work runs *)
CheckDelayedCaps(nomem) ==
    /\ ~capl.bug
    /\ mdsc.cap_delay_list
    /\ jiffies >= ci.i_hold_caps_until
    /\ CapDone(ceph_check_delayed_caps(CapK(nomem), jiffies), "delayed", -1, {}, 0)

(* the session of mds is closed: its write caps are flushed *)
FlushWriteCaps(mds) ==
    /\ ~capl.bug
    /\ ci.i_caps[mds].present
    /\ CapDone(ceph_flush_write_caps(CapK(FALSE), mds), "flush_write", mds, {}, 0)

(* a write beyond max_size asks for more *)
CheckMaxSize(endoff) ==
    /\ ~capl.bug
    /\ HasCaps(ci)
    /\ CapDone(check_max_size(CapK(FALSE), jiffies, endoff), "max_size", -1, {}, endoff)

(* a file is closed *)
PutFmode(fmode) ==
    /\ ~capl.bug
    /\ At(ci.i_nr_by_mode, fmode) > 0
    /\ CapDone(ceph_put_fmode(CapK(FALSE), jiffies, fmode), "close", -1, {}, fmode)

(* time passes *)
Tick(d) ==
    /\ jiffies + d <= MaxTime
    /\ jiffies' = jiffies + d
    /\ capl.n < capl.max
    /\ capl' = [IdleCapl EXCEPT !.n = capl.n + 1, !.max = capl.max, !.op = "tick", !.bug = capl.bug]
    /\ UNCHANGED <<ci, session, mdsc>>
    /\ UNCHANGED crushVars
    /\ UNCHANGED mapVars
    /\ UNCHANGED cliVars

(* the mds declares the session stale: "inc each time we get mds stale msg" *)
SessionStale(mds) ==
    /\ session[mds].s_cap_gen < MaxGen
    /\ session' = [session EXCEPT ![mds].s_cap_gen = @ + 1]
    /\ capl.n < capl.max
    /\ capl' = [IdleCapl EXCEPT !.n = capl.n + 1, !.max = capl.max, !.op = "stale", !.mds = mds,
                                !.bug = capl.bug]
    /\ UNCHANGED <<ci, jiffies, mdsc>>
    /\ UNCHANGED crushVars
    /\ UNCHANGED mapVars
    /\ UNCHANGED cliVars

(* the mds renews the caps of the session: they expire TtlSecs from now *)
SessionRenew(mds) ==
    /\ session[mds].s_cap_ttl < jiffies + TtlSecs
    /\ jiffies + TtlSecs <= MaxTime
    /\ session' = [session EXCEPT ![mds].s_cap_ttl = jiffies + TtlSecs]
    /\ capl.n < capl.max
    /\ capl' = [IdleCapl EXCEPT !.n = capl.n + 1, !.max = capl.max, !.op = "renew", !.mds = mds,
                                !.bug = capl.bug]
    /\ UNCHANGED <<ci, jiffies, mdsc>>
    /\ UNCHANGED crushVars
    /\ UNCHANGED mapVars
    /\ UNCHANGED cliVars

(* fill_inode of inode.c sets max_size from the reply of the mds, and the  *)
(* snap caps of an inode of a snapshot; the mds has renewed the caps of    *)
(* its sessions                                                            *)
FilledInode == [ceph_alloc_inode EXCEPT !.i_max_size = 1]

FilledInodes == {[FilledInode EXCEPT !.i_snap_caps = sc] : sc \in {{}, {"PIN"}}}

OpenSession == [s_cap_gen |-> 0, s_cap_ttl |-> TtlSecs]

CapInitWith(cs, sess, max) ==
    /\ ci \in cs
    /\ session = sess
    /\ jiffies = 0
    /\ mdsc = IdleMdsc
    /\ capl = [IdleCapl EXCEPT !.max = max]
    /\ osdmap = EmptyMap
    /\ last = IdleLast
    /\ nsteps = 0
    /\ monc = IdleMonc
    /\ ol = IdleOl
    /\ cin = IdleCin /\ weight = AllIn /\ runs = <<>> /\ nset = 0
    /\ CliIdle

(* caps, grants and revocations, migration, references, staleness *)
CapInit == CapInitWith(FilledInodes, [m \in Mds |-> OpenSession], MaxCapOps)

CapNext ==
    \/ \E mds \in Mds, issued \in AddMasks, nomem \in BOOLEAN :
          AddCap(mds, 1, issued, 0, nomem)
    \/ \E h \in GrantMsgs({1}) \cup ReleasedMsgs \cup ExportMsgs : HandleCaps(h, FALSE)
    \/ \E h \in ImportMsgs, nomem \in BOOLEAN : HandleCaps(h, nomem)
    \/ Tick(HoldSecs)
    \/ \E mds \in Mds : SessionStale(mds)
    \/ \E mds \in Mds : SessionRenew(mds)

CapSpec == CapInit /\ [][CapNext]_vars

(* One inode open for reading and for writing, its cap held from mds 0:    *)
(* the state after the replies to the two opens.                           *)
Opened ==
    LET r1 == ceph_add_cap([ci |-> FilledInode, mdsc |-> IdleMdsc],
                           [m \in Mds |-> OpenSession], 0, 1, Caps, 1, 0, FALSE, FALSE)
    IN  ceph_add_cap([ci |-> r1.ci, mdsc |-> r1.mdsc],
                     [m \in Mds |-> OpenSession], 0, 2, Caps, 1, 0, FALSE, FALSE)

RevokeMasks == {{"PIN", "RD", "RDCACHE", "WR"}, {"PIN", "RD", "RDCACHE"}, {"PIN", "RD", "WR"}, Caps}

RevokeMsgs == {CapMsg("GRANT", 0, caps, 0, 1, 0) : caps \in RevokeMasks}

(* the references a read and a write ask for (ceph_aio_read, ceph_aio_write) *)
NeedWant == {<<{"RD"}, {"RDCACHE"}>>, <<{"WR"}, {"WRBUFFER"}>>}

Gots == {{"RD"}, {"RD", "RDCACHE"}, {"WR"}, {"WR", "WRBUFFER"}}

(* revocations against reads and writes in flight, and the delayed release *)
RevokeInit ==
    /\ ci = Opened.ci
    /\ mdsc = Opened.mdsc
    /\ session = [m \in Mds |-> OpenSession]
    /\ jiffies = 0
    /\ capl = [IdleCapl EXCEPT !.max = MaxRevokeOps]
    /\ osdmap = EmptyMap
    /\ last = IdleLast
    /\ nsteps = 0
    /\ monc = IdleMonc
    /\ ol = IdleOl
    /\ cin = IdleCin /\ weight = AllIn /\ runs = <<>> /\ nset = 0
    /\ CliIdle

RevokeNext ==
    \/ \E h \in RevokeMsgs : HandleCaps(h, FALSE)
    \/ \E nw \in NeedWant, impl \in {{}, Caps} : GetCapRefs(nw[1], nw[2], -1, impl)
    \/ \E had \in Gots : PutCapRefs(had, FALSE)
    \/ SetPageDirty
    \/ PutWrbufferCapRefs(mdsc.seq, FALSE)
    \/ CheckDelayedCaps(FALSE)
    \/ \E fmode \in {1, 2} : PutFmode(fmode)
    \/ CheckMaxSize(2)
    \/ Tick(HoldSecs)

RevokeSpec == RevokeInit /\ [][RevokeNext]_vars

(* buffered writes, snapshots taken meanwhile, writeback and the flush of  *)
(* the cap_snaps to mds 0                                                  *)
SnapInit ==
    /\ ci = Opened.ci
    /\ mdsc = Opened.mdsc
    /\ session = [m \in Mds |-> OpenSession]
    /\ jiffies = 0
    /\ capl = [IdleCapl EXCEPT !.max = MaxSnapOps]
    /\ osdmap = EmptyMap
    /\ last = IdleLast
    /\ nsteps = 0
    /\ monc = IdleMonc
    /\ ol = IdleOl
    /\ cin = IdleCin /\ weight = AllIn /\ runs = <<>> /\ nset = 0
    /\ CliIdle

SnapNext ==
    \/ \E impl \in {{}, Caps} : GetCapRefs({"WR"}, {"WRBUFFER"}, -1, impl)
    \/ PutCapRefs({"WR", "WRBUFFER"}, FALSE)
    \/ SetPageDirty
    \/ QueueCapSnap
    \/ \E snapc \in 1..(MaxSnaps + 1) : PutWrbufferCapRefs(snapc, FALSE)
    \/ \E h \in FlushedsnapMsgs : HandleCaps(h, FALSE)

SnapSpec == SnapInit /\ [][SnapNext]_vars

----------------------------------------------------------------------------
(* Properties of the capability engine *)

(* the caps of the inode that are not stale: neither issued under an older *)
(* generation of the session nor past the ttl of the session               *)
FreshCaps ==
    {m \in Mds : /\ ci.i_caps[m].present
                 /\ ~(ci.i_caps[m].gen < session[m].s_cap_gen)
                 /\ ~(jiffies >= session[m].s_cap_ttl)}

(* C11: the issued mask __ceph_caps_issued returns is exactly the snap     *)
(* caps of the inode together with the issued bits of its caps that are    *)
(* not stale; a stale cap contributes no bit.                              *)
C11_IssuedIsUnionOfFreshCaps ==
    __ceph_caps_issued(ci, session, jiffies)
        = ci.i_snap_caps \cup UNION {ci.i_caps[m].issued : m \in FreshCaps}

(* a stale cap holds bits that no fresh cap and no snap cap holds *)
C11_StaleCapHoldsMore ==
    \E m \in Mds \ FreshCaps :
        /\ ci.i_caps[m].present
        /\ FreshCaps # {}
        /\ ci.i_snap_caps # {}
        /\ ~(ci.i_caps[m].issued \subseteq __ceph_caps_issued(ci, session, jiffies))

(* C12: whenever the inode lock is released, the issued bits of every cap  *)
(* are among its implemented bits.                                         *)
C12_IssuedWithinImplemented ==
    \A m \in Mds : ci.i_caps[m].present => ci.i_caps[m].issued \subseteq ci.i_caps[m].implemented

(* C13: after any sequence of cap add, remove, release, export and import  *)
(* operations the inode holds exactly one snap realm reference if it has   *)
(* a cap, and none, with i_snap_realm NULL, if it has no cap.              *)
C13_OneRealmRefIffCaps ==
    /\ mdsc.realm_nref = (IF HasCaps(ci) THEN 1 ELSE 0)
    /\ (ci.i_snap_realm = 0) <=> ~HasCaps(ci)

(* the last cap of the inode has just been removed *)
C13_LastCapRemoved ==
    /\ capl.op \in {"EXPORT", "RELEASED"}
    /\ capl.pre.present
    /\ ~HasCaps(ci)
    /\ ci.i_snap_realm = 0

(* the effective issued bits of the inode *)
Issued == __ceph_caps_issued(ci, session, jiffies)

Exporting == <<ci.i_cap_exporting_mds, ci.i_cap_exporting_mseq, ci.i_cap_exporting_issued>>

(* an EXPORT arrives whose migrate_seq is below the mseq of a cap held *)
OldExport ==
    /\ capl'.op = "EXPORT"
    /\ \E m \in Mds : ci.i_caps[m].present /\ ci.i_caps[m].mseq > capl'.arg

(* C19, as stated: an EXPORT whose migrate_seq is smaller than the mseq of *)
(* a cap the inode holds is ignored: no exporting mds or migrating bits    *)
(* are recorded and the set of caps of the inode is unchanged.             *)
C19_OldExportIgnored ==
    [][OldExport => Exporting' = Exporting /\ ci'.i_caps = ci.i_caps]_vars

(* C19, amended: such an EXPORT records no exporting mds or migrating      *)
(* bits and leaves the caps of the other servers unchanged, but the cap    *)
(* held from the exporting mds is removed.                                 *)
C19_OldExportRemovesCapOnly ==
    [][OldExport =>
          /\ Exporting' = Exporting
          /\ ~ci'.i_caps[capl'.mds].present
          /\ \A m \in Mds \ {capl'.mds} : ci'.i_caps[m] = ci.i_caps[m]]_vars

(* an EXPORT older than the cap of the other mds has removed a cap *)
C19_OldExportSeen ==
    /\ capl.op = "EXPORT"
    /\ capl.pre.present
    /\ capl.pre.issued # {}
    /\ ~ci.i_caps[capl.mds].present
    /\ \E m \in Mds \ {capl.mds} : ci.i_caps[m].present /\ ci.i_caps[m].mseq > capl.arg
    /\ ci.i_cap_exporting_mds # capl.mds

(* the bits a GRANT takes away from the cap it is about *)
Revoked == ci.i_caps[capl'.mds].issued \ capl'.caps

(* C15, as stated: when a GRANT revokes bits and a revoked bit is in use   *)
(* by the reference counts, handle_cap_grant sends no reply and the        *)
(* revoked bits stay in implemented; the reply is sent at once only when   *)
(* no revoked bit is in use.                                               *)
C15_RevokeInUseDefersAck ==
    [][(capl'.op = "GRANT" /\ ci.i_caps[capl'.mds].present
            /\ Revoked \cap __ceph_caps_used(ci) # {})
          => /\ ~capl'.reply
             /\ Revoked \subseteq ci'.i_caps[capl'.mds].implemented]_vars

(* the bits whose revocation by mds 0 the client has yet to acknowledge *)
Revoking(c) == c.i_caps[0].implemented \ c.i_caps[0].issued

(* the last reference on a bit under revocation is dropped: the bits being *)
(* revoked were in use and none of them is any more                        *)
RevokedDrained ==
    /\ capl'.op \in {"put", "put_wrbuffer"}
    /\ ci.i_caps[0].present
    /\ Revoking(ci) \cap __ceph_caps_used(ci) # {}
    /\ Revoking(ci) \cap __ceph_caps_used(ci') = {}

(* C16: after a deferred revocation, as soon as the reference counts of    *)
(* the revoked bits drain to zero the client sends the cap message that    *)
(* acknowledges it and sets implemented to issued, whatever references are *)
(* still held on bits that are not revoked.                                *)
C16_DrainedRevocationAcked ==
    [][RevokedDrained =>
          /\ \E i \in 1..Len(capl'.sent) :
                capl'.sent[i].op \in {"ACK", "RELEASE"} /\ capl'.sent[i].mds = 0
          /\ ci'.i_caps[0].implemented = ci'.i_caps[0].issued]_vars

(* the bits of the cap of mds 0 that are issued and not wanted while the   *)
(* inode waits on the delayed list for its hold time to pass               *)
HeldUnwanted ==
    IF ci.i_caps[0].present /\ mdsc.cap_delay_list /\ jiffies < ci.i_hold_caps_until
    THEN ci.i_caps[0].issued \ __ceph_caps_wanted(ci)
    ELSE {}

(* C20: a bit that is issued and no longer wanted is not dropped by the    *)
(* client before the hold time of the inode, set about 5 seconds ahead     *)
(* when it was queued on the delayed list, has passed; a revocation by the *)
(* mds is not a drop.                                                      *)
C20_UnwantedKeptUntilHoldTime ==
    [][capl'.op # "GRANT" => HeldUnwanted \subseteq ci'.i_caps[0].issued]_vars

(* the follows values of the FLUSHSNAP messages the last operation sent *)
FlushedFollows ==
    {capl.sent[i].follows : i \in {j \in 1..Len(capl.sent) : capl.sent[j].op = "FLUSHSNAP"}}

(* the list position of the cap_snap of that follows, 0 when it is gone *)
SnapAt(f) ==
    LET at == {k \in 1..Len(ci.i_cap_snaps) : ci.i_cap_snaps[k].follows = f}
    IN  IF at = {} THEN 0 ELSE CHOOSE k \in at : \A k2 \in at : k <= k2

(* C17: a FLUSHSNAP for a cap_snap is never sent while a cap_snap before   *)
(* it in the list of the inode still has dirty pages or a write in flight. *)
C17_FlushAfterEarlierFlushed ==
    \A f \in FlushedFollows :
        \A j \in 1..Len(ci.i_cap_snaps) :
            j < SnapAt(f) => ci.i_cap_snaps[j].dirty = 0 /\ ~ci.i_cap_snaps[j].writing

(* C18: with two cap_snaps pending, the FLUSHSNAP for the second is not    *)
(* sent until the mds has acknowledged the first with a FLUSHEDSNAP of its *)
(* follows; an acknowledged cap_snap is off the list, so a cap_snap that   *)
(* is flushed has none before it.                                          *)
C18_FlushAfterEarlierAcked ==
    \A f \in FlushedFollows : SnapAt(f) <= 1

----------------------------------------------------------------------------
(* The librados client (src/librados.cc): one pool context, synchronous   *)
(* and asynchronous object operations, and the completion callbacks.      *)
(* An operation returns [rc, ops, pool]: its return value, the OSD         *)
(* operations it handed to the objecter, each with the snap context (for a *)
(* read, the snap id) and the asserted version it carries, and the pool    *)
(* context as the operation leaves it.                                     *)

MaxRadosOps == 4    \* operations and callbacks per behaviour of RadosSpec

EINVAL == 22

EROFS == 30

ENOENT == 2

(* PoolCtx::set_snap *)
set_snap(pool, s) == [pool EXCEPT !.snap_seq = IF s = 0 THEN CEPH_NOSNAP ELSE s]

(* PoolCtx::set_snap_context, for a context that is_valid *)
set_snap_context(pool, seq, snaps) ==
    [pool EXCEPT !.snapc = [seq |-> seq, snaps |-> snaps]]

OsdOp(op, snapc) == [op |-> op, snapc |-> snapc, assert_ver |-> 0]

(* RadosClient::set_assert_version *)
set_assert_version(pool, ver) == [pool EXCEPT !.assert_ver = ver]

(* "if (pool.assert_ver) { op.assert_version(pool.assert_ver);             *)
(* pool.assert_ver = 0; pop = &op; }" ahead of the objecter call: res is   *)
(* the operation as issued, res.pool the pool context it leaves            *)
assert_version(res) ==
    IF res.ops # <<>> /\ res.pool.assert_ver # 0
    THEN [res EXCEPT !.ops[1].assert_ver = res.pool.assert_ver, !.pool.assert_ver = 0]
    ELSE res

(* the operations that refuse a pool context set to a snapshot; r is the   *)
(* result the OSD replies with                                             *)
checked_mutation(pool, op, r) ==
    IF pool.snap_seq # CEPH_NOSNAP THEN [rc |-> -EINVAL, ops |-> <<>>, pool |-> pool]
    ELSE [rc |-> r, ops |-> <<OsdOp(op, pool.snapc)>>, pool |-> pool]

create(pool, r) == checked_mutation(pool, "create", r)

write(pool, r) == assert_version(checked_mutation(pool, "write", r))

write_full(pool, r) == assert_version(checked_mutation(pool, "write_full", r))

trunc(pool, r) == assert_version(checked_mutation(pool, "trunc", r))

setxattr(pool, r) == assert_version(checked_mutation(pool, "setxattr", r))

rmxattr(pool, r) == assert_version(checked_mutation(pool, "rmxattr", r))

(* RadosClient::remove: no test of snap_seq, and the local, empty snapc *)
remove(pool, r) ==
    assert_version([rc |-> r, ops |-> <<OsdOp("remove", EmptySnapc)>>, pool |-> pool])

(* RadosClient::tmap_update: likewise *)
tmap_update(pool, r) ==
    assert_version([rc |-> r, ops |-> <<OsdOp("tmap_update", EmptySnapc)>>, pool |-> pool])

(* RadosClient::aio_write and aio_write_full: no test of snap_seq; they    *)
(* return 0 at once, the result comes with the callbacks                   *)
aio_write(pool) == [rc |-> 0, ops |-> <<OsdOp("write", pool.snapc)>>, pool |-> pool]

aio_write_full(pool) ==
    [rc |-> 0, ops |-> <<OsdOp("write_full", pool.snapc)>>, pool |-> pool]

(* RadosClient::aio_read: the read carries the snap id *)
aio_read(pool) == [rc |-> 0, ops |-> <<OsdOp("read", pool.snap_seq)>>, pool |-> pool]

(* ceph_aio_write (src/kernel/file.c) on an inode of snapshot snap *)
ceph_aio_write(snap, r) ==
    IF snap # CEPH_NOSNAP THEN [rc |-> -EROFS, ops |-> <<>>]
    ELSE [rc |-> r, ops |-> <<OsdOp("ceph_sync_write", EmptySnapc)>>]

(* AioCompletion(): read tells a completion of aio_read; onack and onsafe  *)
(* tell which of C_aio_Ack and C_aio_Safe are registered and not yet run   *)
AioCompletion(read, onack, onsafe) ==
    [ack |-> FALSE, safe |-> FALSE, rval |-> 0, read |-> read,
     onack |-> onack, onsafe |-> onsafe]

(* C_aio_Ack::finish(r) *)
C_aio_Ack_finish(c, r) == [c EXCEPT !.rval = r, !.ack = TRUE, !.onack = FALSE]

(* C_aio_Safe::finish(r) *)
C_aio_Safe_finish(c, r) ==
    [c EXCEPT !.rval = IF c.ack THEN c.rval ELSE r, !.ack = TRUE, !.safe = TRUE,
              !.onsafe = FALSE]

(* AioCompletion::is_safe *)
is_safe(c) == c.safe

(* AioCompletion::wait_for_safe returns once safe is set *)
wait_for_safe_returns(c) == c.safe

RadosDone(pool, op, res, aio, c) ==
    /\ rados.n < MaxRadosOps
    /\ rados' = [pool |-> pool, aio |-> aio, n |-> rados.n + 1,
                 last |-> [op |-> op, rc |-> res.rc, ops |-> res.ops,
                           pool |-> rados.pool, c |-> c]]
    /\ UNCHANGED crushVars
    /\ UNCHANGED mapVars
    /\ UNCHANGED capVars
    /\ UNCHANGED <<monreq, retry, notify, delayed, mapping>>

NoRes == [rc |-> 0, ops |-> <<>>]

SetAssertVersion(ver) ==
    RadosDone(set_assert_version(rados.pool, ver), "set_assert_version", NoRes, rados.aio, 0)

SetSnap(s) == RadosDone(set_snap(rados.pool, s), "set_snap", NoRes, rados.aio, 0)

SetSnapContext(sc) ==
    RadosDone(set_snap_context(rados.pool, sc.seq, sc.snaps), "set_snap_context",
              NoRes, rados.aio, 0)

Create(r) ==
    LET res == create(rados.pool, r) IN RadosDone(res.pool, "create", res, rados.aio, 0)

Write(r) ==
    LET res == write(rados.pool, r) IN RadosDone(res.pool, "write", res, rados.aio, 0)

WriteFull(r) ==
    LET res == write_full(rados.pool, r) IN RadosDone(res.pool, "write_full", res, rados.aio, 0)

Trunc(r) ==
    LET res == trunc(rados.pool, r) IN RadosDone(res.pool, "trunc", res, rados.aio, 0)

Setxattr(r) ==
    LET res == setxattr(rados.pool, r) IN RadosDone(res.pool, "setxattr", res, rados.aio, 0)

Rmxattr(r) ==
    LET res == rmxattr(rados.pool, r) IN RadosDone(res.pool, "rmxattr", res, rados.aio, 0)

Remove(r) ==
    LET res == remove(rados.pool, r) IN RadosDone(res.pool, "remove", res, rados.aio, 0)

TmapUpdate(r) ==
    LET res == tmap_update(rados.pool, r) IN RadosDone(res.pool, "tmap_update", res, rados.aio, 0)

AioWrite ==
    RadosDone(rados.pool, "aio_write", aio_write(rados.pool),
              Append(rados.aio, AioCompletion(FALSE, TRUE, TRUE)), Len(rados.aio) + 1)

AioWriteFull ==
    RadosDone(rados.pool, "aio_write_full", aio_write_full(rados.pool),
              Append(rados.aio, AioCompletion(FALSE, TRUE, TRUE)), Len(rados.aio) + 1)

AioRead ==
    RadosDone(rados.pool, "aio_read", aio_read(rados.pool),
              Append(rados.aio, AioCompletion(TRUE, TRUE, FALSE)), Len(rados.aio) + 1)

(* the objecter runs the onack context of completion i with the OSD's result *)
AckDelivered(i, r) ==
    /\ i \in 1..Len(rados.aio)
    /\ rados.aio[i].onack
    /\ RadosDone(rados.pool, "ack", NoRes,
                 [rados.aio EXCEPT ![i] = C_aio_Ack_finish(rados.aio[i], r)], i)

(* the objecter runs the onsafe context of completion i *)
SafeDelivered(i, r) ==
    /\ i \in 1..Len(rados.aio)
    /\ rados.aio[i].onsafe
    /\ RadosDone(rados.pool, "safe", NoRes,
                 [rados.aio EXCEPT ![i] = C_aio_Safe_finish(rados.aio[i], r)], i)

(* a write(2) on a file of the kernel client, of the head or of a snapshot *)
KernelWrite(snap, r) ==
    RadosDone(rados.pool, "ceph_aio_write", ceph_aio_write(snap, r), rados.aio, snap)

(* valid snap contexts: seq is at least the newest snap, snaps descend *)
SnapContexts ==
    {EmptySnapc, [seq |-> 1, snaps |-> <<1>>], [seq |-> 2, snaps |-> <<2, 1>>]}

OsdResults == {0, -ENOENT}

RadosInit ==
    /\ CliIdle
    /\ CapIdle
    /\ osdmap = EmptyMap
    /\ last = IdleLast
    /\ nsteps = 0
    /\ monc = IdleMonc
    /\ ol = IdleOl
    /\ cin = IdleCin /\ weight = AllIn /\ runs = <<>> /\ nset = 0

RadosNext ==
    \/ \E s \in 0..2 : SetSnap(s)
    \/ \E ver \in 1..2 : SetAssertVersion(ver)
    \/ \E sc \in SnapContexts : SetSnapContext(sc)
    \/ \E r \in OsdResults : Create(r)
    \/ \E r \in OsdResults : Write(r)
    \/ \E r \in OsdResults : WriteFull(r)
    \/ \E r \in OsdResults : Trunc(r)
    \/ \E r \in OsdResults : Setxattr(r)
    \/ \E r \in OsdResults : Rmxattr(r)
    \/ \E r \in OsdResults : Remove(r)
    \/ \E r \in OsdResults : TmapUpdate(r)
    \/ AioWrite
    \/ AioWriteFull
    \/ AioRead
    \/ \E i \in 1..MaxRadosOps, r \in OsdResults : AckDelivered(i, r)
    \/ \E i \in 1..MaxRadosOps, r \in OsdResults : SafeDelivered(i, r)
    \/ \E snap \in {CEPH_NOSNAP, 1}, r \in OsdResults : KernelWrite(snap, r)

RadosSpec == RadosInit /\ [][RadosNext]_vars

(* C21: for a read started with aio_read, once the ACK has been delivered  *)
(* is_safe returns true and wait_for_safe returns.                         *)
C21_ReadAckIsSafe ==
    \A i \in 1..Len(rados.aio) :
        rados.aio[i].read /\ rados.aio[i].ack
            => is_safe(rados.aio[i]) /\ wait_for_safe_returns(rados.aio[i])

MutatingOps ==
    {"create", "write", "write_full", "aio_write", "aio_write_full", "trunc", "remove",
     "setxattr", "rmxattr", "tmap_update"}

(* C22: every mutating librados operation on a pool context whose snap_seq *)
(* is not CEPH_NOSNAP, and every kernel write on a snapshot inode, returns *)
(* an error and issues no OSD operation.                                   *)
C22_SnapshotMutationRefused ==
    (\/ rados.last.op \in MutatingOps /\ rados.last.pool.snap_seq # CEPH_NOSNAP
     \/ rados.last.op = "ceph_aio_write" /\ rados.last.c # CEPH_NOSNAP)
        => rados.last.rc < 0 /\ rados.last.ops = <<>>

SnapcOps ==
    {"create", "write", "write_full", "aio_write", "aio_write_full", "trunc", "remove",
     "tmap_update"}

(* C23: every mutation issued through a pool context (create, write,       *)
(* write_full, trunc, remove, tmap_update and the aio writes) carries the  *)
(* pool's snap context, which is the self-managed one when the caller set  *)
(* one with set_snap_context.                                              *)
C23_MutationCarriesPoolSnapc ==
    rados.last.op \in SnapcOps =>
        \A k \in 1..Len(rados.last.ops) : rados.last.ops[k].snapc = rados.last.pool.snapc

----------------------------------------------------------------------------
(* The monitor client's requests (src/unnamed/part_005): map and unmount   *)
(* requests re-sent by a delayed work with exponential backoff, and statfs *)
(* requests registered by tid.  A function takes the monitor client m and  *)
(* returns it changed; m.out collects the messages it sent, m.rc is its    *)
(* return value.  env = [r, nomem] are the random byte of pick_mon and     *)
(* whether ceph_msg_new fails.                                             *)

MaxMoncOps == 7     \* operations per behaviour of MoncSpec and StatfsSpec

(* seconds; mon_client.c, which defines the two, is not part of src/ *)
BASE_DELAY_INTERVAL == 1

MAX_DELAY_INTERVAL == 30

(* the time after which a statfs request without reply is to be re-sent *)
StatfsTimeout == 2

EAGAIN == 11

EINTR == 4

ENOMEM == 12

EIO == 5

pick_mon(m, notmon, r) ==
    IF notmon < 0 /\ m.last_mon >= 0 THEN [m |-> m, mon |-> m.last_mon]
    ELSE [m |-> [m EXCEPT !.last_mon = r % m.num_mon], mon |-> r % m.num_mon]

(* delayed_work(dwork, delay): schedule_delayed_work leaves a work that is *)
(* already pending alone; the result is [work, delay]                      *)
delayed_work(work, delay) ==
    [work |-> IF work # 0 THEN work ELSE delay,
     delay |-> IF delay < MAX_DELAY_INTERVAL THEN delay * 2 ELSE MAX_DELAY_INTERVAL]

MonMsg(type, mon, arg) == [type |-> type, mon |-> mon, arg |-> arg]

do_request_mdsmap(m, env) ==
    LET pk == pick_mon(m, -1, env.r)
        dw == delayed_work(pk.m.mds_work, pk.m.mds_delay)
        sent == [pk.m EXCEPT !.out = Append(@, MonMsg("mds_getmap", pk.mon, m.want_mdsmap))]
    IN  IF env.nomem THEN pk.m
        ELSE IF m.want_mdsmap # 0
        THEN [sent EXCEPT !.mds_work = dw.work, !.mds_delay = dw.delay]
        ELSE sent

ceph_monc_request_mdsmap(m, want, env) ==
    IF want > m.want_mdsmap
    THEN do_request_mdsmap([m EXCEPT !.mds_delay = BASE_DELAY_INTERVAL,
                                     !.want_mdsmap = want], env)
    ELSE m

got_mdsmap_strict(m, got) ==
    IF got <= m.want_mdsmap THEN [m EXCEPT !.rc = -EAGAIN]
    ELSE [m EXCEPT !.want_mdsmap = 0, !.mds_work = 0, !.mds_delay = BASE_DELAY_INTERVAL]

ceph_monc_got_mdsmap(m, got) ==
    IF got < m.want_mdsmap THEN [m EXCEPT !.rc = -EAGAIN]
    ELSE [m EXCEPT !.want_mdsmap = 0, !.mds_work = 0, !.mds_delay = BASE_DELAY_INTERVAL]

do_request_osdmap(m, env) ==
    LET pk == pick_mon(m, -1, env.r)
        dw == delayed_work(pk.m.osd_work, pk.m.osd_delay)
        sent == [pk.m EXCEPT !.out = Append(@, MonMsg("osd_getmap", pk.mon,
                                                      m.have_osdmap + 1))]
    IN  IF env.nomem THEN pk.m
        ELSE IF m.have_osdmap # 0
        THEN [sent EXCEPT !.osd_work = dw.work, !.osd_delay = dw.delay]
        ELSE sent

ceph_monc_request_osdmap(m, have, env) ==
    do_request_osdmap([m EXCEPT !.osd_delay = BASE_DELAY_INTERVAL, !.have_osdmap = have,
                                !.osd_requested = TRUE], env)

ceph_monc_got_osdmap(m, got) ==
    IF got <= m.have_osdmap THEN [m EXCEPT !.rc = -EAGAIN]
    ELSE [m EXCEPT !.have_osdmap = 0, !.osd_work = 0, !.osd_delay = BASE_DELAY_INTERVAL,
                   !.osd_requested = FALSE]

do_request_umount(m, env) ==
    LET pk == pick_mon(m, -1, env.r)
        dw == delayed_work(pk.m.umount_work, pk.m.umount_delay)
    IN  IF env.nomem THEN pk.m
        ELSE [pk.m EXCEPT !.out = Append(@, MonMsg("unmount", pk.mon, 0)),
                          !.umount_work = dw.work, !.umount_delay = dw.delay]

ceph_monc_request_umount(m, env) ==
    do_request_umount([m EXCEPT !.umount_delay = BASE_DELAY_INTERVAL,
                                !.umounting = TRUE], env)

ceph_monc_handle_umount(m) == [m EXCEPT !.umount_work = 0, !.umounting = FALSE]

send_statfs(m, tid, env) ==
    LET pk == pick_mon(m, -1, env.r)
    IN  IF env.nomem THEN [pk.m EXCEPT !.rc = -ENOMEM]
        ELSE [pk.m EXCEPT !.out = Append(@, MonMsg("statfs", pk.mon, tid))]

(* ceph_monc_do_statfs of caller p up to wait_for_completion_interruptible; *)
(* preload tells that radix_tree_preload fails                              *)
do_statfs_send(m, p, preload, env) ==
    LET tid == m.last_tid + 1
        reg == [m EXCEPT !.last_tid = tid,
                         !.tree = @ \cup {[tid |-> tid, last_attempt |-> m.now]}]
        snt == send_statfs(reg, tid, env)
    IN  IF preload THEN [m EXCEPT !.rc = -ENOMEM]
        ELSE IF snt.rc < 0 THEN snt
        ELSE [snt EXCEPT !.waiting[p] = tid]

(* ceph_monc_do_statfs of caller p from a signal that interrupts the wait *)
do_statfs_interrupted(m, p) == [m EXCEPT !.waiting[p] = 0, !.rc = -EINTR]

Registered(m, tid) == {req \in m.tree : req.tid = tid}

Waiters(m, tid) == {p \in 1..Len(m.waiting) : m.waiting[p] = tid}

(* ceph_monc_handle_statfs_reply for a reply with this tid; short tells a   *)
(* reply too short to decode.  complete() wakes the caller, which returns  *)
(* req.result; for a request whose caller has returned it writes to a      *)
(* stack frame that is gone (bug).                                         *)
ceph_monc_handle_statfs_reply(m, tid, short) ==
    IF Registered(m, tid) = {} THEN m
    ELSE [m EXCEPT !.tree = @ \ Registered(m, tid),
                   !.rc = IF short THEN -EIO ELSE 0,
                   !.waiting = [p \in 1..Len(@) |-> IF @[p] = tid THEN 0 ELSE @[p]],
                   !.bug = @ \/ Waiters(m, tid) = {}]

MoncPre(m) ==
    [want_mdsmap |-> m.want_mdsmap, have_osdmap |-> m.have_osdmap,
     mds_delay |-> m.mds_delay, osd_delay |-> m.osd_delay,
     mds_work |-> m.mds_work, osd_work |-> m.osd_work, tree |-> m.tree]

(* the monitor client at the start of an operation *)
Monc == [monreq EXCEPT !.out = <<>>, !.rc = 0]

MoncDone(op, arg, m) ==
    /\ monreq.n < MaxMoncOps
    /\ ~monreq.bug
    /\ monreq' = [m EXCEPT !.op = op, !.arg = arg, !.pre = MoncPre(monreq),
                           !.n = monreq.n + 1]
    /\ UNCHANGED crushVars
    /\ UNCHANGED mapVars
    /\ UNCHANGED capVars
    /\ UNCHANGED <<rados, retry, notify, delayed, mapping>>

RequestMdsmap(want, env) ==
    MoncDone("request_mdsmap", want, ceph_monc_request_mdsmap(Monc, want, env))

GotMdsmap(got) == MoncDone("got_mdsmap", got, ceph_monc_got_mdsmap(Monc, got))

(* the delay of mds_delayed_work has passed: the work runs *)
MdsWork(env) ==
    /\ monreq.mds_work # 0
    /\ MoncDone("mds_work", monreq.mds_work,
                do_request_mdsmap([Monc EXCEPT !.mds_work = 0], env))

RequestOsdmap(have, env) ==
    MoncDone("request_osdmap", have, ceph_monc_request_osdmap(Monc, have, env))

GotOsdmap(got) == MoncDone("got_osdmap", got, ceph_monc_got_osdmap(Monc, got))

OsdWork(env) ==
    /\ monreq.osd_work # 0
    /\ MoncDone("osd_work", monreq.osd_work,
                do_request_osdmap([Monc EXCEPT !.osd_work = 0], env))

RequestUmount(env) ==
    /\ ~monreq.umounting
    /\ MoncDone("request_umount", 0, ceph_monc_request_umount(Monc, env))

UmountWork(env) ==
    /\ monreq.umount_work # 0
    /\ MoncDone("umount_work", monreq.umount_work,
                do_request_umount([Monc EXCEPT !.umount_work = 0], env))

HandleUmount ==
    /\ monreq.umounting
    /\ MoncDone("handle_umount", 0, ceph_monc_handle_umount(Monc))

DoStatfs(p, preload, env) ==
    /\ monreq.waiting[p] = 0
    /\ MoncDone("do_statfs", p, do_statfs_send(Monc, p, preload, env))

StatfsInterrupted(p) ==
    /\ monreq.waiting[p] # 0
    /\ MoncDone("statfs_interrupted", p, do_statfs_interrupted(Monc, p))

HandleStatfsReply(tid, short) ==
    MoncDone("statfs_reply", tid, ceph_monc_handle_statfs_reply(Monc, tid, short))

(* a second passes *)
StatfsTick == MoncDone("tick", 0, [Monc EXCEPT !.now = @ + 1])

MoncInit ==
    /\ CliIdle
    /\ CapIdle
    /\ osdmap = EmptyMap
    /\ last = IdleLast
    /\ nsteps = 0
    /\ monc = IdleMonc
    /\ ol = IdleOl
    /\ cin = IdleCin /\ weight = AllIn /\ runs = <<>> /\ nset = 0

Envs == [r : 0..1, nomem : BOOLEAN]

MoncNext ==
    \/ \E want \in 1..2, env \in Envs : RequestMdsmap(want, env)
    \/ \E got \in 1..2 : GotMdsmap(got)
    \/ \E env \in Envs : MdsWork(env)
    \/ \E have \in 0..1, env \in Envs : RequestOsdmap(have, env)
    \/ \E got \in 1..2 : GotOsdmap(got)
    \/ \E env \in Envs : OsdWork(env)
    \/ \E env \in Envs : RequestUmount(env)
    \/ \E env \in Envs : UmountWork(env)
    \/ HandleUmount

MoncSpec == MoncInit /\ [][MoncNext]_vars

StatfsNext ==
    \/ \E p \in 1..2, preload \in BOOLEAN, env \in Envs : DoStatfs(p, preload, env)
    \/ \E p \in 1..2 : StatfsInterrupted(p)
    \/ \E tid \in 1..MaxMoncOps, short \in BOOLEAN : HandleStatfsReply(tid, short)
    \/ StatfsTick

StatfsSpec == MoncInit /\ [][StatfsNext]_vars

(* C24: the delay between successive map (or unmount) re-requests starts   *)
(* at the base interval, doubles after each attempt and never exceeds the  *)
(* maximum interval.                                                       *)
C24_DelayNeverExceedsMax ==
    /\ monreq.mds_work <= MAX_DELAY_INTERVAL
    /\ monreq.osd_work <= MAX_DELAY_INTERVAL
    /\ monreq.umount_work <= MAX_DELAY_INTERVAL

C26_OutstandingRequestRetried ==
    /\ monreq.want_mdsmap # 0 => monreq.mds_work # 0
    /\ monreq.osd_requested => monreq.osd_work # 0

(* C27: at most one statfs request is registered in the monitor client,    *)
(* awaiting its reply, at any time.                                        *)
C27_OneStatfsOutstanding == Cardinality(monreq.tree) <= 1

(* C28: a statfs request that has had no reply within the timeout has been *)
(* re-sent, to a monitor other than the last one: no registered request's  *)
(* last attempt is older than the timeout.                                 *)
C28_StatfsResentAfterTimeout ==
    \A req \in monreq.tree : monreq.now - req.last_attempt <= StatfsTimeout

----------------------------------------------------------------------------
(* The retry loops of crush_choose (src/crush/mapper.c), one step at a     *)
(* time, for a tree bucket whose items are devices of the wanted type:     *)
(* the call of crush_bucket_choose, each pass of the shift walk, and the   *)
(* rest of the loop body with its verdict on the candidate.                *)

RetryP == [firstn |-> TRUE, numrep |-> retry.numrep]

(* the descent of bucket_tree_choose, up to the shift walk *)
ChooseDescend ==
    /\ retry.pc = "choose"
    /\ retry' = [retry EXCEPT
          !.pc = "walk",
          !.walk_n = tree_descend(0, retry.bucket, retry.x,
                                  choose_r(RetryP, retry.bucket, retry.rep, retry.ftotal,
                                           retry.flocal, retry.shift),
                                  retry.bucket.size \div 2),
          !.walk_shift = retry.shift]
    /\ UNCHANGED crushVars
    /\ UNCHANGED mapVars
    /\ UNCHANGED capVars
    /\ UNCHANGED <<rados, monreq, notify, delayed, mapping>>

(* one pass of "while (shift > 0)" in bucket_tree_choose *)
ShiftStep ==
    /\ retry.pc = "walk"
    /\ retry.walk_shift > 0
    /\ LET n == (retry.walk_n + 2) % retry.bucket.size
       IN  retry' = [retry EXCEPT
              !.walk_n = n,
              !.walk_shift = IF At(retry.bucket.node_weights, n) # 0 THEN @ - 1 ELSE @]
    /\ UNCHANGED crushVars
    /\ UNCHANGED mapVars
    /\ UNCHANGED capVars
    /\ UNCHANGED <<rados, monreq, notify, delayed, mapping>>

(* the replica position is over: emitted tells whether item was stored *)
next_rep(rt, item, emitted, verdict) ==
    [rt EXCEPT !.rep = @ + 1, !.out = IF emitted THEN Append(@, item) ELSE @,
               !.ftotal = 0, !.flocal = 0, !.shift = 0,
               !.pc = IF rt.rep + 1 < rt.numrep THEN "choose" ELSE "done",
               !.verdict = verdict]

(* bucket_tree_choose returns item; the loop body of crush_choose from    *)
(* "collision?" on                                                         *)
choose_verdict(rt, item) ==
    LET collide == \E i \in 1..Len(rt.out) : rt.out[i] = item
        reject == is_out(0, rt.weight, item, rt.x)
        ftotal2 == rt.ftotal + 1
        flocal2 == rt.flocal + 1
        kind == retry_kind(collide, ftotal2, flocal2)
        verdict == [rejected |-> TRUE, collide |-> collide, ftotal0 |-> rt.ftotal,
                    flocal0 |-> rt.flocal, ftotal |-> ftotal2, flocal |-> flocal2,
                    kind |-> kind]
    IN  IF reject \/ collide
        THEN IF kind = "skip" THEN next_rep(rt, item, FALSE, verdict)
             ELSE [rt EXCEPT !.ftotal = ftotal2,
                             !.flocal = IF kind = "descent" THEN 0 ELSE flocal2,
                             !.shift = next_shift(ftotal2, rt.shift),
                             !.pc = "choose", !.verdict = verdict]
        ELSE next_rep(rt, item, TRUE, NoVerdict)

ChooseReturn ==
    /\ retry.pc = "walk"
    /\ retry.walk_shift = 0
    /\ retry' = choose_verdict(retry, At(retry.bucket.items, retry.walk_n))
    /\ UNCHANGED crushVars
    /\ UNCHANGED mapVars
    /\ UNCHANGED capVars
    /\ UNCHANGED <<rados, monreq, notify, delayed, mapping>>

(* tree buckets of four devices: every weight positive, device 1 of weight *)
(* zero, every device of weight zero                                       *)
RetryBuckets ==
    {FlatRoot(CRUSH_BUCKET_TREE),
     TreeBucket(-1, 1, <<0, 0, 0, 1, 0, 2, 0, 3>>,
                <<0, 256, 256, 0, 768, 256, 512, 256>>),
     TreeBucket(-1, 1, <<0, 0, 0, 1, 0, 2, 0, 3>>, <<0, 0, 0, 0, 0, 0, 0, 0>>)}

(* every device in, two devices out, every device out *)
RetryWeights == {AllIn, <<0, 65536, 0, 65536, 65536>>, <<0, 0, 0, 0, 0>>}

RetryInit ==
    /\ retry \in {RetryStart(b, w, x, numrep) :
                     b \in RetryBuckets, w \in RetryWeights, x \in 0..MaxX, numrep \in 2..3}
    /\ rados = IdleRados
    /\ monreq = IdleMonreq
    /\ notify = IdleNotify
    /\ delayed = IdleDelay
    /\ mapping = IdleMapping
    /\ CapIdle
    /\ osdmap = EmptyMap
    /\ last = IdleLast
    /\ nsteps = 0
    /\ monc = IdleMonc
    /\ ol = IdleOl
    /\ cin = IdleCin /\ weight = AllIn /\ runs = <<>> /\ nset = 0

RetryNext ==
    \/ ChooseDescend
    \/ ShiftStep
    \/ ChooseReturn

RetrySpec == RetryInit /\ [][RetryNext]_vars

(* the loops run on: no step that is possible is put off for ever *)
RetryLive == RetrySpec /\ WF_vars(RetryNext)

(* C29 as stated: a rejected candidate increments flocal and ftotal; then  *)
(* flocal < 3 retries within the bucket, else ftotal < 10 restarts the     *)
(* descent, else the replica position is skipped.                          *)
C29_RetryLocallyBelowThree ==
    retry.verdict.rejected =>
        /\ retry.verdict.ftotal = retry.verdict.ftotal0 + 1
        /\ retry.verdict.flocal = retry.verdict.flocal0 + 1
        /\ retry.verdict.kind = IF retry.verdict.flocal < 3 THEN "bucket"
                                ELSE IF retry.verdict.ftotal < 10 THEN "descent"
                                ELSE "skip"

(* C29, amended: a rejected candidate increments flocal and ftotal; then a *)
(* candidate that collided, with flocal < 3, is retried within the bucket, *)
(* else ftotal < 10 restarts the descent, else the position is skipped.    *)
C29_CollisionRetriesLocally ==
    retry.verdict.rejected =>
        /\ retry.verdict.ftotal = retry.verdict.ftotal0 + 1
        /\ retry.verdict.flocal = retry.verdict.flocal0 + 1
        /\ retry.verdict.kind = IF retry.verdict.collide /\ retry.verdict.flocal < 3
                                THEN "bucket"
                                ELSE IF retry.verdict.ftotal < 10 THEN "descent"
                                ELSE "skip"
        /\ retry.pc # "walk" =>
              /\ retry.verdict.kind = "bucket" =>
                    retry.pc = "choose" /\ retry.flocal = retry.verdict.flocal
              /\ retry.verdict.kind = "descent" => retry.pc = "choose" /\ retry.flocal = 0
              /\ retry.verdict.kind = "skip" => retry.ftotal = 0

(* a candidate that is out and did not collide was rejected with flocal    *)
(* below 3, and the descent restarts                                       *)
C29_OutRestartsDescent ==
    /\ retry.verdict.rejected /\ ~retry.verdict.collide
    /\ retry.verdict.flocal < 3 /\ retry.verdict.kind = "descent"

(* C30: crush_do_rule terminates on every well-formed map and weight       *)
(* vector: every replica position is given up after at most 10 rejected    *)
(* candidates and every bucket choose method, the shift walk of the tree   *)
(* bucket included, returns: the loop over the positions reaches its end.  *)
C30_ChooseTerminates == <>(retry.pc = "done")

----------------------------------------------------------------------------
(* The snapshot flush while the inode's cap migrates: the machine of       *)
(* SnapSpec, and the EXPORT that takes the cap of the exporting mds away.  *)

FlushNext ==
    \/ \E impl \in {{}, Caps} : GetCapRefs({"WR"}, {"WRBUFFER"}, -1, impl)
    \/ PutCapRefs({"WR", "WRBUFFER"}, FALSE)
    \/ SetPageDirty
    \/ QueueCapSnap
    \/ \E snapc \in 1..(MaxSnaps + 1) : PutWrbufferCapRefs(snapc, FALSE)
    \/ \E h \in FlushedsnapMsgs \cup ExportMsgs : HandleCaps(h, FALSE)

FlushSpec == SnapInit /\ [][FlushNext]_vars

(* C31: __ceph_flush_snaps terminates for every state of the inode's       *)
(* cap_snap list and cap set, also when the inode has flushable cap_snaps  *)
(* but no cap or no session for the chosen mds: no call ends in the retry  *)
(* loop that never leaves.                                                 *)
C31_FlushSnapsTerminates == ~capl.spin

----------------------------------------------------------------------------
(* C32: when apply_incremental returns an error the OSD map the client     *)
(* holds is as before the call: epoch, flags, max_osd, CRUSH map, and the  *)
(* state and address of every OSD.                                         *)
C32_ErrorLeavesMapUnchanged ==
    (last.op = "inc" /\ last.ret = "err") =>
        /\ osdmap.epoch = last.before.epoch
        /\ osdmap.flags = last.before.flags
        /\ osdmap.max_osd = last.before.max_osd
        /\ osdmap.crush = last.before.crush
        /\ osdmap.osd_state = last.before.osd_state
        /\ osdmap.osd_addr = last.before.osd_addr

(* the last step was an apply_incremental that reached "new max?" with a   *)
(* new max_osd: the call osdmap_set_max_osd(map, max) it made              *)
SetMaxCalled ==
    /\ last.op = "inc"
    /\ last.inc.max >= 0
    /\ ~last.inc.has_full
    /\ last.inc.cut \notin {"header", "crush", "max"}
    /\ last.inc.epoch = last.before.epoch + 1
    /\ ~(last.inc.has_crush /\ crush_decode(last.inc.newcrush, last.nomem).err)

SetMaxResult == osdmap_set_max_osd(last.before, last.inc.max, last.nomem)

(* C37: osdmap_set_max_osd(max) keeps the state and address of every OSD   *)
(* id below both the old and the new max_osd, leaves the ids from the old  *)
(* max_osd on zeroed, and copies no more than max entries into the new     *)
(* arrays, also when max is below the old max_osd; when the allocation     *)
(* fails the map is unchanged.                                             *)
C37_SetMaxOsdKeepsAndBounds ==
    SetMaxCalled =>
        LET old == last.before
            r == SetMaxResult
        IN  IF last.nomem THEN r.err /\ r.map = old
            ELSE /\ ~r.bug
                 /\ r.map.max_osd = last.inc.max
                 /\ \A i \in 1..last.inc.max :
                       IF i <= old.max_osd
                       THEN /\ r.map.osd_state[i] = old.osd_state[i]
                            /\ r.map.osd_addr[i] = old.osd_addr[i]
                       ELSE r.map.osd_state[i] = {} /\ r.map.osd_addr[i] = 0


----------------------------------------------------------------------------
(* the bits under revocation by a cap that is not stale: implemented by    *)
(* such a cap and no longer issued                                         *)
FreshRevoking ==
    UNION {ci.i_caps[m].implemented : m \in FreshCaps}
        \ __ceph_caps_issued(ci, session, jiffies)

(* the condition the claim gives for ceph_get_cap_refs to succeed *)
GetCapRefsAllowed(need, want, endoff) ==
    /\ need \subseteq __ceph_caps_issued(ci, session, jiffies)
    /\ (want \ need) \cap FreshRevoking = {}
    /\ "WR" \in need => /\ endoff <= ci.i_max_size
                        /\ ~__ceph_have_pending_cap_snap(ci)

(* C33: ceph_get_cap_refs succeeds exactly when every needed bit is        *)
(* issued, no wanted bit outside the granted set is under revocation by a  *)
(* cap that is not stale and, for a write, endoff is within max_size and   *)
(* no cap_snap is pending; the references it takes are need together with  *)
(* the issued wanted bits, all of them issued.                             *)
C33_GetCapRefsExactly ==
    \A nw \in NeedWant, endoff \in {-1, 2}, impl \in {{}, Caps} :
        LET r == ceph_get_cap_refs(ci, session, jiffies, nw[1], nw[2], endoff, impl)
            have == __ceph_caps_issued(ci, session, jiffies)
        IN  /\ r.ret <=> GetCapRefsAllowed(nw[1], nw[2], endoff)
            /\ r.ret => /\ r.got = nw[1] \cup (have \cap nw[2])
                        /\ r.got \subseteq have

(* C34: once ceph_monc_do_statfs has returned, with a result, a send error *)
(* or -EINTR, its request is no longer registered in the statfs tree:      *)
(* every registered request belongs to a caller that is still waiting, so  *)
(* a later reply finds no request of a caller that has returned.           *)
C34_ReturnedRequestUnregistered ==
    \A req \in monreq.tree : Waiters(monreq, req.tid) # {}

(* the operations of librados that hand an operation to the objecter *)
PoolOps == MutatingOps \cup {"aio_read"}

(* C40: a version set with set_assert_version is attached to exactly the   *)
(* next operation issued on the pool context and cleared by it: an         *)
(* operation issued carries the version the pool context held and leaves   *)
(* none behind for a later operation.                                      *)
C40_AssertVersionNextOpOnly ==
    (rados.last.op \in PoolOps /\ rados.last.ops # <<>>) =>
        /\ rados.last.ops[1].assert_ver = rados.last.pool.assert_ver
        /\ rados.pool.assert_ver = 0

----------------------------------------------------------------------------
(* RadosClient::notify (src/librados.cc) and the two callbacks the         *)
(* dispatch thread runs for it, one step per critical section or           *)
(* unprotected access.  The caller's positions: "wait_ack" before          *)
(* "while (!done)", "asleep_ack" inside cond.Wait, "check_all" before      *)
(* "while (!done_all)", "wait_all" between that test and cond_all.Wait,    *)
(* "asleep_all" inside cond_all.Wait, "unregister" before                  *)
(* unregister_watcher.                                                     *)

MaxNotifies == 3    \* calls of notify per behaviour of NotifySpec

NotifyDone(nfy) ==
    /\ notify' = nfy
    /\ UNCHANGED crushVars
    /\ UNCHANGED mapVars
    /\ UNCHANGED capVars
    /\ UNCHANGED <<rados, monreq, retry, delayed, mapping>>

(* C_SafeCond(&mylock, &cond, &done, &r) of include/Context.h: the         *)
(* constructor clears *done                                                *)
C_SafeCond(nfy) == [nfy EXCEPT !.done = FALSE]

(* C_SafeCond::finish(r): under the mutex, sets the result and *done and   *)
(* signals the condition                                                   *)
C_SafeCond_finish(nfy, r) ==
    [nfy EXCEPT !.r = r, !.done = TRUE, !.acked = TRUE,
                !.pc = IF @ = "asleep_ack" THEN "wait_ack" ELSE @]

(* C_NotifyComplete(&mylock_all, &cond_all, &done_all): the constructor    *)
(* stores the three pointers and writes nothing to *done                   *)
C_NotifyComplete(nfy) == nfy

(* C_NotifyComplete::notify, "*done = true", without the mutex *)
C_NotifyComplete_set(nfy) == [nfy EXCEPT !.done_all = TRUE, !.complete = "set"]

(* C_NotifyComplete::notify, "cond->Signal()": wakes the caller if it is   *)
(* inside cond_all.Wait                                                    *)
C_NotifyComplete_signal(nfy) ==
    [nfy EXCEPT !.complete = "ran",
                !.pc = IF @ = "asleep_all" THEN "check_all" ELSE @]

(* notify up to mylock_all.Lock(): the flags are declared without a value, *)
(* garbage is what the stack holds for done_all; the watcher is            *)
(* registered and the notify operation handed to the objecter              *)
notify_start(nfy, garbage) ==
    C_NotifyComplete(C_SafeCond(
        [nfy EXCEPT !.pc = "wait_ack", !.done_all = garbage, !.acked = FALSE,
                    !.complete = "none", !.registered = TRUE, !.r = 0]))

(* "mylock.Lock(); while (!done) cond.Wait(mylock); mylock.Unlock();" up   *)
(* to the release of the mutex, by Wait or by Unlock                       *)
notify_wait_ack(nfy) ==
    [nfy EXCEPT !.pc = IF nfy.done THEN "check_all" ELSE "asleep_ack"]

(* the test of "while (!done_all)" *)
notify_check_all(nfy) ==
    [nfy EXCEPT !.pc = IF nfy.done_all THEN "unregister" ELSE "wait_all"]

(* cond_all.Wait(mylock_all) *)
notify_wait_all(nfy) == [nfy EXCEPT !.pc = "asleep_all"]

(* "lock.Lock(); unregister_watcher(cookie); lock.Unlock(); ...            *)
(* delete ctx; return r;"                                                  *)
notify_return(nfy) ==
    [nfy EXCEPT !.pc = "idle", !.registered = FALSE, !.n = @ + 1,
                !.last = [returned |-> TRUE, acked |-> nfy.acked,
                          complete |-> nfy.complete = "ran", rc |-> nfy.r]]

NotifyCall(garbage) ==
    /\ notify.pc = "idle"
    /\ notify.n < MaxNotifies
    /\ NotifyDone(notify_start(notify, garbage))

NotifyWaitAck ==
    /\ notify.pc = "wait_ack"
    /\ NotifyDone(notify_wait_ack(notify))

NotifyCheckAll ==
    /\ notify.pc = "check_all"
    /\ NotifyDone(notify_check_all(notify))

NotifyWaitAll ==
    /\ notify.pc = "wait_all"
    /\ NotifyDone(notify_wait_all(notify))

(* the client lock is held by watch_notify while the callback runs *)
NotifyReturn ==
    /\ notify.pc = "unregister"
    /\ notify.complete # "set"
    /\ NotifyDone(notify_return(notify))

(* the dispatch thread delivers the reply to the notify operation *)
NotifyAcked(r) ==
    /\ notify.pc # "idle"
    /\ ~notify.acked
    /\ NotifyDone(C_SafeCond_finish(notify, r))

(* the dispatch thread delivers the notify-complete message: watch_notify  *)
(* finds the watcher and runs its context                                  *)
NotifyCompleteSet ==
    /\ notify.registered
    /\ notify.complete = "none"
    /\ NotifyDone(C_NotifyComplete_set(notify))

NotifyCompleteSignal ==
    /\ notify.complete = "set"
    /\ NotifyDone(C_NotifyComplete_signal(notify))

NotifyInit ==
    /\ CliIdle
    /\ CapIdle
    /\ osdmap = EmptyMap
    /\ last = IdleLast
    /\ nsteps = 0
    /\ monc = IdleMonc
    /\ ol = IdleOl
    /\ cin = IdleCin /\ weight = AllIn /\ runs = <<>> /\ nset = 0

NotifyNext ==
    \/ \E garbage \in BOOLEAN : NotifyCall(garbage)
    \/ NotifyWaitAck
    \/ NotifyCheckAll
    \/ NotifyWaitAll
    \/ NotifyReturn
    \/ \E r \in OsdResults : NotifyAcked(r)
    \/ NotifyCompleteSet
    \/ NotifyCompleteSignal

NotifySpec == NotifyInit /\ [][NotifyNext]_vars

(* C35: RadosClient::notify returns once the notify operation is           *)
(* acknowledged and the notify-complete callback has run, under every      *)
(* interleaving of the caller and the dispatch thread: it has not returned *)
(* before both, and once both have happened the caller is not left asleep  *)
(* on a condition (no wake-up is lost).                                    *)
C35_NotifyReturnsAfterBoth ==
    /\ notify.last.returned => notify.last.acked /\ notify.last.complete
    /\ (notify.acked /\ notify.complete = "ran")
           => notify.pc \notin {"asleep_ack", "asleep_all"}

----------------------------------------------------------------------------
(* The delayed-release list (src/kernel/osdmap.h) with its three users     *)
(* interleaved: a step is a critical section of mdsc->cap_delay_lock or an *)
(* access outside it.  __cap_delay_requeue and __cap_delay_cancel are      *)
(* called with i_lock held, so they exclude each other; the delayed work   *)
(* holds neither lock between its steps.                                   *)

MaxRequeues == 3    \* calls of __cap_delay_requeue per behaviour of DelaySpec

DelayDone(d) ==
    /\ delayed' = d
    /\ UNCHANGED crushVars
    /\ UNCHANGED mapVars
    /\ UNCHANGED capVars
    /\ UNCHANGED <<rados, monreq, retry, notify, mapping>>

(* __cap_delay_requeue, the section under cap_delay_lock *)
cap_delay_requeue_locked(d) ==
    IF d.stopping THEN d
    ELSE [d EXCEPT !.igrabs = IF d.on_list = 0 THEN @ + 1 ELSE @,
                   !.on_list = 1]

(* __cap_delay_cancel: "if (list_empty(&ci->i_cap_delay_list)) return;",   *)
(* before the lock is taken                                                *)
cap_delay_cancel_test(d) ==
    [d EXCEPT !.cancel = IF d.on_list = 0 THEN "idle" ELSE "del"]

(* __cap_delay_cancel: list_del_init under cap_delay_lock *)
cap_delay_cancel_del(d) == [d EXCEPT !.on_list = 0, !.cancel = "iput"]

(* __cap_delay_cancel: iput *)
cap_delay_cancel_iput(d) == [d EXCEPT !.iputs = @ + 1, !.cancel = "idle"]

(* ceph_check_delayed_caps: one pass of the loop under cap_delay_lock; due *)
(* tells that i_hold_caps_until has passed                                 *)
check_delayed_caps_del(d, due) ==
    IF d.on_list = 0 \/ ~due THEN [d EXCEPT !.check = "idle"]
    ELSE [d EXCEPT !.on_list = 0, !.check = "check_caps"]

(* ceph_check_delayed_caps: ceph_check_caps(ci, 1), which does not requeue *)
check_delayed_caps_check(d) == [d EXCEPT !.check = "iput"]

(* ceph_check_delayed_caps: iput, and round the loop *)
check_delayed_caps_iput(d) == [d EXCEPT !.iputs = @ + 1, !.check = "loop"]

(* ceph_check_caps(ci, 0) reaches __cap_delay_requeue, with i_lock held *)
DelayRequeue ==
    /\ delayed.cancel = "idle"
    /\ delayed.n < MaxRequeues
    /\ DelayDone([cap_delay_requeue_locked(delayed) EXCEPT !.n = @ + 1])

(* handle_cap_released removed the last cap and calls __cap_delay_cancel *)
DelayCancelTest ==
    /\ delayed.cancel = "idle"
    /\ DelayDone(cap_delay_cancel_test(delayed))

DelayCancelDel ==
    /\ delayed.cancel = "del"
    /\ DelayDone(cap_delay_cancel_del(delayed))

DelayCancelIput ==
    /\ delayed.cancel = "iput"
    /\ DelayDone(cap_delay_cancel_iput(delayed))

(* the delayed work starts, or goes round its loop *)
DelayCheckDel(due) ==
    /\ delayed.check \in {"idle", "loop"}
    /\ DelayDone(check_delayed_caps_del(delayed, due))

(* ceph_check_caps takes i_lock *)
DelayCheckCaps ==
    /\ delayed.check = "check_caps"
    /\ delayed.cancel = "idle"
    /\ DelayDone(check_delayed_caps_check(delayed))

DelayCheckIput ==
    /\ delayed.check = "iput"
    /\ DelayDone(check_delayed_caps_iput(delayed))

DelayInit ==
    /\ CliIdle
    /\ CapIdle
    /\ osdmap = EmptyMap
    /\ last = IdleLast
    /\ nsteps = 0
    /\ monc = IdleMonc
    /\ ol = IdleOl
    /\ cin = IdleCin /\ weight = AllIn /\ runs = <<>> /\ nset = 0

DelayNext ==
    \/ DelayRequeue
    \/ DelayCancelTest
    \/ DelayCancelDel
    \/ DelayCancelIput
    \/ \E due \in BOOLEAN : DelayCheckDel(due)
    \/ DelayCheckCaps
    \/ DelayCheckIput

DelaySpec == DelayInit /\ [][DelayNext]_vars

(* the iputs that a user of the list has yet to make for an entry it took  *)
(* off the list                                                            *)
DelayOwed ==
    (IF delayed.cancel = "iput" THEN 1 ELSE 0)
        + (IF delayed.check \in {"check_caps", "iput"} THEN 1 ELSE 0)

(* C36: under every interleaving of __cap_delay_requeue,                   *)
(* __cap_delay_cancel and ceph_check_delayed_caps the inode is on the      *)
(* delayed-release list at most once and holds exactly one reference for   *)
(* it while it is there: the references taken for the list are those       *)
(* dropped, the one of the entry and those still owed by a user that took  *)
(* the entry off.                                                          *)
C36_OneReferencePerListEntry ==
    /\ delayed.on_list <= 1
    /\ delayed.igrabs = delayed.iputs + delayed.on_list + DelayOwed

----------------------------------------------------------------------------
(* calc_file_object_mapping (src/kernel/osdmap.c) and a caller that maps a *)
(* file range with it, one call per extent, until the length is used up.   *)

PageSize == 2       \* PAGE_SIZE, scaled: stripe units are whole pages

MaxFileOff == 5     \* file offsets 0..MaxFileOff

MaxFileLen == 6     \* lengths 1..MaxFileLen

MaxMappings == 1    \* file ranges mapped per behaviour of FileMapSpec

Min(a, b) == IF a < b THEN a ELSE b

(* "while (t > stripe_len && *oxoff + *oxlen < osize) { *oxlen +=          *)
(* min_t(loff_t, su, t); t -= stripe_len; }"                               *)
RECURSIVE more_stripe_units(_, _, _, _, _, _)
more_stripe_units(t, oxoff, oxlen, osize, su, stripe_len) ==
    IF t > stripe_len /\ oxoff + oxlen < osize
    THEN more_stripe_units(t - stripe_len, oxoff, oxlen + Min(su, t), osize, su, stripe_len)
    ELSE oxlen

(* calc_file_object_mapping: the object number, the extent in the object   *)
(* and the file offset and length as the call leaves them; do_div leaves   *)
(* the quotient in t and returns the remainder                             *)
calc_file_object_mapping(layout, off, len) ==
    LET osize == layout.fl_object_size
        su == layout.fl_stripe_unit
        sc == layout.fl_stripe_count
        stripe_len == sc * su
        su_per_object == osize \div su
        bl == off \div su
        stripeno == bl \div sc
        stripepos == bl % sc
        objsetno == stripeno \div su_per_object
        oxoff == off % su
        first_oxlen == Min(len, su)
        oxlen == more_stripe_units(len, oxoff, first_oxlen, osize, su, stripe_len)
    IN  [bno |-> objsetno * sc + stripepos, oxoff |-> oxoff, oxlen |-> oxlen,
         off |-> off + first_oxlen, len |-> len - oxlen]

(* layouts that pass "BUG_ON((su & ~PAGE_MASK) != 0)": the stripe unit is  *)
(* a whole number of pages, the object a whole number of stripe units      *)
FileLayouts ==
    {[fl_object_size |-> k * su, fl_stripe_unit |-> su, fl_stripe_count |-> sc] :
        k \in 1..2, su \in {PageSize, 2 * PageSize}, sc \in 1..2}

MappingDone(m) ==
    /\ mapping' = m
    /\ UNCHANGED crushVars
    /\ UNCHANGED mapVars
    /\ UNCHANGED capVars
    /\ UNCHANGED <<rados, monreq, retry, notify, delayed>>

(* a caller starts on the range [off, off + len) of a file *)
MappingStart(layout, off, len) ==
    /\ mapping.len = 0
    /\ mapping.n < MaxMappings
    /\ MappingDone([layout |-> layout, off0 |-> off, len0 |-> len, off |-> off,
                    len |-> len, extents |-> <<>>, n |-> mapping.n + 1])

(* one call: the extent is kept with the offset and length it was asked for *)
MappingCall ==
    /\ mapping.len > 0
    /\ LET r == calc_file_object_mapping(mapping.layout, mapping.off, mapping.len)
       IN  MappingDone([mapping EXCEPT
               !.off = r.off, !.len = r.len,
               !.extents = Append(@, [off |-> mapping.off, len |-> mapping.len,
                                      bno |-> r.bno, oxoff |-> r.oxoff,
                                      oxlen |-> r.oxlen])])

FileMapInit ==
    /\ CliIdle
    /\ CapIdle
    /\ osdmap = EmptyMap
    /\ last = IdleLast
    /\ nsteps = 0
    /\ monc = IdleMonc
    /\ ol = IdleOl
    /\ cin = IdleCin /\ weight = AllIn /\ runs = <<>> /\ nset = 0

FileMapNext ==
    \/ \E layout \in FileLayouts, off \in 0..MaxFileOff, len \in 1..MaxFileLen :
          MappingStart(layout, off, len)
    \/ MappingCall

FileMapSpec == FileMapInit /\ [][FileMapNext]_vars

(* the bytes of the object an extent takes *)
ExtentBytes(e) == {<<e.bno, b>> : b \in e.oxoff..(e.oxoff + e.oxlen - 1)}

(* C38: calling calc_file_object_mapping until the length reaches 0 maps   *)
(* every byte of [off, off + len) to exactly one object extent: each       *)
(* extent lies inside one object and is no longer than what was left of    *)
(* the range, the extents take distinct bytes of the objects, and the      *)
(* calls have walked the file offset to the end of the range.              *)
C38_EveryByteInOneExtent ==
    /\ \A i \in 1..Len(mapping.extents) :
          LET e == mapping.extents[i] IN
          /\ e.oxoff + e.oxlen <= mapping.layout.fl_object_size
          /\ e.oxlen <= e.len
          /\ \A j \in 1..(i - 1) : ExtentBytes(e) \cap ExtentBytes(mapping.extents[j]) = {}
    /\ (mapping.n > 0 /\ mapping.len = 0) => mapping.off = mapping.off0 + mapping.len0

----------------------------------------------------------------------------
(* crush_do_rule with a forced first replica: the maps and rules of the    *)
(* placement engine, and a rule that takes a rack of the hierarchy         *)
(* instead of its root.                                                    *)

(* take rack -3; chooseleaf 2 hosts; emit *)
SubtreeRule ==
    <<Step(CRUSH_RULE_TAKE, -3, 0), Step(CRUSH_RULE_CHOOSE_LEAF_FIRSTN, 2, 1),
      Step(CRUSH_RULE_EMIT, 0, 0)>>

ForceScenarios == Scenarios \cup {[map |-> HierMap, rule |-> SubtreeRule]}

(* forced devices: 3 exists in every map, 4 has no parent in the flat tree *)
(* map, 5 is max_devices                                                   *)
ForceInit ==
    /\ cin \in {[map |-> sc.map, rule |-> sc.rule, x |-> x, result_max |-> ResultMax,
                 force |-> f, salt |-> 0] :
                    sc \in ForceScenarios, x \in 0..MaxX, f \in 3..5}
    /\ weight \in InitWeights
    /\ runs = <<>>
    /\ nset = 0
    /\ osdmap = EmptyMap
    /\ last = IdleLast
    /\ nsteps = 0
    /\ monc = IdleMonc
    /\ ol = IdleOl
    /\ CapIdle
    /\ CliIdle

ForceSpec == ForceInit /\ [][CrushNext]_vars

(* "force >= map->max_devices || map->device_parents[force] == 0" is false *)
ForceExists(map, force) ==
    force < map.max_devices /\ At(map.device_parents, force) # 0

(* the buckets above an item, up to the root *)
RECURSIVE Ancestors(_, _)
Ancestors(map, item) ==
    LET up == IF item >= 0 THEN At(map.device_parents, item)
              ELSE map.bucket_parents[-item]
    IN  IF up = 0 THEN {} ELSE {up} \cup Ancestors(map, up)

(* C39: when force names a device that exists, is not out and lies under   *)
(* the bucket the rule takes, the first element of the result of a rule    *)
(* that chooses devices is that device; when the forced device does not    *)
(* exist (id >= max_devices or no parent) crush_do_rule returns -1.        *)
C39_ForcedDeviceFirst ==
    \A i \in 1..Len(runs) :
        LET res == runs[i].res IN
        /\ (/\ cin.force >= 0
            /\ ForceExists(cin.map, cin.force)
            /\ ~is_out(cin.salt, runs[i].weight, cin.force, cin.x)
            /\ cin.rule[1].arg1 \in Ancestors(cin.map, cin.force)
            /\ RuleType(cin.rule) = 0)
               => ~res.bug /\ res.rc >= 1 /\ res.result[1] = cin.force
        /\ (cin.force >= 0 /\ ~ForceExists(cin.map, cin.force))
               => ~res.bug /\ res.rc = -1
====
